---- MODULE Spec2Model ----
(***************************************************************************)
(* ServerMonitor (backend/server_monitor.py): the availability change      *)
(* detector, the auto-order path, the price cache and the history log of   *)
(* one subscription, as a state machine.                                   *)
(*                                                                         *)
(* Conventions.  A Python dict is a function whose DOMAIN is the set of    *)
(* keys present; dict.get(k) is Get(d, k).  Python's None is the string    *)
(* None where the other values are strings, 0 for a price text (a falsy    *)
(* price) and <<>> for a duration text.  A status key "<dc>|<config>" is   *)
(* the pair <<dc, config>>, a flat status key "<dc>" the 1-tuple <<dc>>.   *)
(* Timestamps are whole seconds of the clock now.  Dicts are iterated in   *)
(* the fixed orders DCOrder and ConfigOrder, flat entries first.           *)
(***************************************************************************)
EXTENDS Integers, Sequences, FiniteSets, TLC

\* ---------------------------------------------------------------- bounds
MaxChecks == 2
MaxTicks == 1

\* threads start() may create in one run
MaxStarts == 2

\* ------------------------------------------------------ program constants
None == "None"
Unavailable == "unavailable"
PlanCode == "24ska01"
price_cache_ttl == 3 * 24 * 3600
HistoryLimit == 100

\* self.check_interval: one-second chunks of the wait between two cycles
check_interval == 5

\* self.message_uuid_cache_ttl, in seconds
message_uuid_cache_ttl == 24 * 3600

\* ------------------------------------------------------------ input space
DCOrder == <<"gra", "rbx">>
ConfigOrder == <<"cfgA", "cfgB">>
DCs == {DCOrder[i] : i \in 1..Len(DCOrder)}
Configs == {ConfigOrder[i] : i \in 1..Len(ConfigOrder)}
Statuses == {"unavailable", "available", "low"}

\* memory, storage and option codes the snapshot source reports per configuration
ConfigData(cfg) ==
    IF cfg = "cfgA" THEN [memory |-> "ram-64g", storage |-> "softraid-2x480ssd", options |-> <<2, 1>>]
    ELSE [memory |-> "ram-128g", storage |-> "softraid-2x2000sa", options |-> <<4>>]

\* ---------------------------------------------------------------- helpers
Get(d, k) == IF k \in DOMAIN d THEN d[k] ELSE None

Put(d, k, v) == [x \in (DOMAIN d) \cup {k} |-> IF x = k THEN v ELSE d[x]]

Del(d, k) == [x \in (DOMAIN d) \ {k} |-> d[x]]

EmptyDict == [x \in {} |-> None]

RECURSIVE Insert(_, _)
Insert(x, s) ==
    IF s = <<>> THEN <<x>>
    ELSE IF x <= Head(s) THEN <<x>> \o s
    ELSE <<Head(s)>> \o Insert(x, Tail(s))

RECURSIVE sorted(_)
sorted(s) == IF s = <<>> THEN <<>> ELSE Insert(Head(s), sorted(Tail(s)))

RECURSIVE SumSeq(_)
SumSeq(s) == IF s = <<>> THEN 0 ELSE Head(s) + SumSeq(Tail(s))

\* ------------------------------------------------------------ status keys
StatusKey(dc, config_key) == <<dc, config_key>>

FlatKey(dc) == <<dc>>

\* config_info built from a structured snapshot entry; display = "<memory> + <storage>"
ConfigInfo(cfg) ==
    [memory |-> ConfigData(cfg).memory,
     storage |-> ConfigData(cfg).storage,
     display |-> <<ConfigData(cfg).memory, "+", ConfigData(cfg).storage>>,
     options |-> ConfigData(cfg).options]

\* display text of the config descriptor stored in a history entry (None when it has none)
EntryDisplay(entry) == IF entry.config = None THEN <<>> ELSE ConfigInfo(entry.config).display

\* ---------------------------------------------------------- classification
\* variant: any change between two different statuses counts as a recovery
ClassifyConfig_AnyChange(sub, old_status, status) ==
    IF old_status # status /\ status # Unavailable /\ sub.notifyAvailable THEN "available"
    ELSE IF old_status # status /\ status = Unavailable /\ sub.notifyUnavailable THEN "unavailable"
    ELSE None

\* variant: an availability is classified whatever notifyAvailable says
ClassifyConfig_Unflagged(sub, old_status, status) ==
    IF old_status = None THEN
        IF status = Unavailable THEN
            (IF sub.notifyUnavailable THEN "unavailable" ELSE None)
        ELSE "available"
    ELSE IF old_status = Unavailable /\ status # Unavailable THEN "available"
    ELSE IF old_status \notin {Unavailable, None} /\ status = Unavailable THEN
        (IF sub.notifyUnavailable THEN "unavailable" ELSE None)
    ELSE None

\* change type decided by the configuration-aware loop for one status key
ClassifyConfig(sub, old_status, status) ==
    IF old_status = None THEN
        IF status = Unavailable THEN
            (IF sub.notifyUnavailable THEN "unavailable" ELSE None)
        ELSE
            (IF sub.notifyAvailable THEN "available" ELSE None)
    ELSE IF old_status = Unavailable /\ status # Unavailable THEN
        (IF sub.notifyAvailable THEN "available" ELSE None)
    ELSE IF old_status \notin {Unavailable, None} /\ status = Unavailable THEN
        (IF sub.notifyUnavailable THEN "unavailable" ELSE None)
    ELSE None

\* change type decided by _check_and_notify_change (flat path): in the
\* first-seen branch the notifyAvailable test sits after the if/else on the
\* status, so it also runs, and overrides, when the status is "unavailable"
ClassifyFlat(sub, old_status, status) ==
    IF old_status = None THEN
        LET first == IF status = Unavailable /\ sub.notifyUnavailable
                     THEN "unavailable" ELSE None
        IN IF sub.notifyAvailable THEN "available" ELSE first
    ELSE IF old_status = Unavailable /\ status # Unavailable THEN
        (IF sub.notifyAvailable THEN "available" ELSE None)
    ELSE IF old_status \notin {Unavailable, None} /\ status = Unavailable THEN
        (IF sub.notifyUnavailable THEN "unavailable" ELSE None)
    ELSE None

\* variant: the datacenter list of the subscription is not looked at
InScope_All(sub, dc) == TRUE

\* if monitored_dcs and dc not in monitored_dcs: continue
InScope(sub, dc) == sub.datacenters = {} \/ dc \in sub.datacenters

\* variant: the guard never finds a sibling key
has_same_config_status_Never(last_status, status_key, config_key) == FALSE

\* duplicate-trigger guard: another key of the same configuration holds a
\* non-unavailable value in lastStatus
has_same_config_status(last_status, status_key, config_key) ==
    \E key \in DOMAIN last_status :
        /\ key # status_key
        /\ Len(key) = 2
        /\ key[2] = config_key
        /\ last_status[key] # Unavailable

GuardSkips(sub, last_status, status_key, config_key, old_status, status) ==
    /\ old_status = None
    /\ status # Unavailable
    /\ sub.autoOrder
    /\ has_same_config_status(last_status, status_key, config_key)

\* ------------------------------------------------------------ price cache
\* variant: the key is built from the option codes in the order given
_get_price_cache_key_Unsorted(plan_code, options) == <<plan_code, options>>

_get_price_cache_key(plan_code, options) == <<plan_code, sorted(options)>>

\* variant: an entry exactly price_cache_ttl old still counts as fresh
CacheFresh_Inclusive(timestamp, current_time) == current_time - timestamp <= price_cache_ttl

\* the TTL test of _get_cached_price
CacheFresh(timestamp, current_time) == current_time - timestamp < price_cache_ttl

\* _get_cached_price: the price text (0 = None) and the cache it leaves
_get_cached_price(cache, plan_code, options, current_time) ==
    LET cache_key == _get_price_cache_key(plan_code, options) IN
    IF cache_key \in DOMAIN cache THEN
        IF CacheFresh(cache[cache_key].timestamp, current_time)
        THEN [price |-> cache[cache_key].price, cache |-> cache]
        ELSE [price |-> 0, cache |-> Del(cache, cache_key)]
    ELSE [price |-> 0, cache |-> cache]

_set_cached_price(cache, plan_code, options, price_text, current_time) ==
    Put(cache, _get_price_cache_key(plan_code, options),
        [price |-> price_text, timestamp |-> current_time])

\* the quote the price service returns for a set of option codes
Quote(options) == 10 + SumSeq(options)

\* ----------------------------------------------------------------- history
\* variant: the truncation keeps the oldest entries
TrimHistory_KeepOldest(h) ==
    IF Len(h) > HistoryLimit THEN SubSeq(h, 1, HistoryLimit) ELSE h

\* history = history[-100:]
TrimHistory(h) ==
    IF Len(h) > HistoryLimit THEN SubSeq(h, Len(h) - HistoryLimit + 1, Len(h)) ELSE h

HistoryEntry(t, dc, status, change_type, old_status, cfg) ==
    [timestamp |-> t, datacenter |-> dc, status |-> status,
     changeType |-> change_type, oldStatus |-> old_status, config |-> cfg]

\* the duration text: the fields shown depend on the first non-zero unit
FormatDuration(sec) ==
    LET total_sec == IF sec < 0 THEN 0 ELSE sec
        days == total_sec \div 86400
        rem == total_sec % 86400
        hours == rem \div 3600
        minutes == (rem % 3600) \div 60
        seconds == rem % 60
    IN IF days > 0 THEN <<days, hours, minutes, seconds>>
       ELSE IF hours > 0 THEN <<hours, minutes, seconds>>
       ELSE IF minutes > 0 THEN <<minutes, seconds>>
       ELSE <<seconds>>

\* variant: the scan does not look at the datacenter of the entry
ScanMatchesConfig_AnyDatacenter(entry, dc, same_config_display) ==
    /\ entry.changeType = "available"
    /\ (same_config_display # <<>> =>
            ~(entry.config # None /\ EntryDisplay(entry) # same_config_display))

\* test applied to a history entry by the backward scan of the
\* configuration-aware path: an entry without config descriptor passes
ScanMatchesConfig(entry, dc, same_config_display) ==
    /\ entry.datacenter = dc
    /\ entry.changeType = "available"
    /\ (same_config_display # <<>> =>
            ~(entry.config # None /\ EntryDisplay(entry) # same_config_display))

\* test applied by the backward scan of _check_and_notify_change
ScanMatchesFlat(entry, dc, same_config_display) ==
    /\ entry.datacenter = dc
    /\ entry.changeType = "available"
    /\ (same_config_display # <<>> => EntryDisplay(entry) = same_config_display)

\* backward scan of the configuration-aware path (reversed(history), break
\* at the first entry passing the test): index of that entry, 0 when there
\* is none (last_available_ts stays None)
LastAvailableConfig(h, dc, display) ==
    LET hits == {i \in 1..Len(h) : ScanMatchesConfig(h[i], dc, display)}
    IN IF hits = {} THEN 0 ELSE CHOOSE i \in hits : \A j \in hits : j <= i

\* backward scan of _check_and_notify_change
LastAvailableFlat(h, dc, display) ==
    LET hits == {i \in 1..Len(h) : ScanMatchesFlat(h[i], dc, display)}
    IN IF hits = {} THEN 0 ELSE CHOOSE i \in hits : \A j \in hits : j <= i

\* duration text of an unavailable notification of the configuration-aware
\* path, computed only for a loss (recorded prior status, not unavailable)
DurationConfig(h, notif, cfg, current_time) ==
    IF notif.change_type = "unavailable" /\ notif.old_status \notin {Unavailable, None} THEN
        LET i == LastAvailableConfig(h, notif.dc, ConfigInfo(cfg).display)
        IN IF i > 0 THEN FormatDuration(current_time - h[i].timestamp) ELSE <<>>
    ELSE <<>>

\* duration text computed by _check_and_notify_change
DurationFlat(h, dc, change_type, current_time) ==
    IF change_type = "unavailable" THEN
        LET i == LastAvailableFlat(h, dc, <<>>)
        IN IF i > 0 THEN FormatDuration(current_time - h[i].timestamp) ELSE <<>>
    ELSE <<>>

\* ------------------------------------------------------------------ state
VARIABLES
    subscriptions,        \* self.subscriptions: list of subscription dicts
    price_cache,          \* self.price_cache: cache key -> [price, timestamp]
    valid_plan_codes,     \* self.valid_plan_codes
    message_uuid_cache,   \* self.message_uuid_cache: token -> order descriptor
    now,                  \* the clock (time.time(), _now_beijing()), in seconds
    late_lookups,         \* price threads of send_availability_alert still running after their join timed out
    pc,                   \* position of the poll thread inside check_availability_change
    current_availability, \* the snapshot of the check in progress
    config_results,       \* config_results of the check in progress
    todo,                 \* keys of config_results not yet processed, in dict order
    price_query_tasks,    \* price tasks submitted to the pool and not yet completed
    closure,              \* first_available_dc and config_info as left by the classification loop
    inflight,             \* order requests submitted to the pool and not yet collected
    working,              \* order requests a worker of the pool is executing
    probing,              \* price tasks a worker of the pool has begun: where each is in _get_price_info
    sent,                 \* notifications handed to send_notification by the check in progress
    delivered,            \* what send_notification did with each of them
    orders,               \* order requests submitted by the check in progress
    order_outcomes,       \* kinds of outcome collected (and logged) for the order batch in progress
    lookups,              \* calls to the price service made by the check in progress
    check_start,          \* lastStatus and history as they were when the check in progress started
    prev_snapshot,        \* snapshot of the last check that returned
    priced_ok,            \* plan codes for which the price service has answered with a price
    nchecks,              \* checks started so far
    nticks,               \* clock advances so far
    fetched,              \* what check_availability gave the check that started last
    last_call,            \* the last call of the store or lifecycle interface, with its return value
    running,              \* self.running
    thread,               \* self.thread: the thread start() created last, 0 for None
    loops,                \* threads created by start(): position of each in monitor_loop
    joining,              \* a caller of stop() is inside thread.join(timeout=3)
    iterated,             \* plan codes of the list the for loop of a thread walks, once self.subscriptions names another list
    known_servers,        \* self.known_servers
    new_server_alerts,    \* servers handed to send_new_server_alert by the last call of check_new_servers
    announced             \* plan codes that initialised known_servers or have been announced as new

vars == <<subscriptions, price_cache, valid_plan_codes, message_uuid_cache, now,
          late_lookups, pc, current_availability, config_results, todo,
          price_query_tasks, closure, inflight, working, probing, sent, delivered,
          orders, order_outcomes, lookups, check_start, prev_snapshot, priced_ok, nchecks, nticks,
          fetched, last_call, running, thread, loops, joining, iterated,
          known_servers, new_server_alerts, announced>>

storeVars == <<subscriptions, price_cache, valid_plan_codes, message_uuid_cache, late_lookups>>

localVars == <<current_availability, config_results, todo, price_query_tasks, closure, inflight, working, probing>>

logVars == <<sent, delivered, orders, order_outcomes, lookups>>

loopVars == <<running, thread, loops, joining, iterated>>

serverVars == <<known_servers, new_server_alerts, announced>>

\* ------------------------------------------------------------- snapshots
\* check_availability returned an empty mapping
EmptySnapshot == [flat |-> EmptyDict, configs |-> EmptyDict]

\* check_availability returned None, or raised
FetchNone == [failure |-> "None"]

FetchRaises == [failure |-> "raise"]

\* the three ways a check gets no snapshot: all end the check at once
FetchFailures == {EmptySnapshot, FetchNone, FetchRaises}

FetchKind(snap) ==
    IF snap = EmptySnapshot THEN "empty"
    ELSE IF snap \in FetchFailures THEN snap.failure
    ELSE "snapshot"

\* the snapshot reporting exactly the given statuses, keyed by status key
SnapshotOf(m) ==
    [flat |-> [dc \in {k[1] : k \in {x \in DOMAIN m : Len(x) = 1}} |-> m[<<dc>>]],
     configs |-> [c \in {k[2] : k \in {x \in DOMAIN m : Len(x) = 2}} |->
                    [dc \in {k[1] : k \in {x \in DOMAIN m : Len(x) = 2 /\ x[2] = c}} |->
                        m[<<dc, c>>]]]]

\* statuses the snapshot source reports for a status key
OfferedStatuses(key) ==
    IF key \in {<<"gra">>, <<"gra", "cfgA">>} THEN Statuses ELSE {"unavailable", "available"}

SnapshotKeys == {<<"gra">>, <<"gra", "cfgA">>, <<"rbx", "cfgA">>, <<"gra", "cfgB">>}

\* what check_availability can do: fail (FetchFailures), or return one
\* flat or structured key, two datacenters of one configuration, or two
\* configurations
Snapshots ==
    FetchFailures
    \cup UNION {{SnapshotOf(k :> st) : st \in OfferedStatuses(k)} : k \in SnapshotKeys}
    \cup {SnapshotOf((<<"gra", "cfgA">> :> "available") @@ (<<"rbx", "cfgA">> :> "available")),
          SnapshotOf((<<"gra", "cfgA">> :> "available") @@ (<<"gra", "cfgB">> :> "available"))}

\* status keys of a snapshot and the status it reports for each
SnapshotStatus(snap) ==
    LET keys == {FlatKey(dc) : dc \in DOMAIN snap.flat}
                \cup UNION {{StatusKey(dc, c) : dc \in DOMAIN snap.configs[c]} : c \in DOMAIN snap.configs}
    IN [k \in keys |-> IF Len(k) = 1 THEN snap.flat[k[1]] ELSE snap.configs[k[2]][k[1]]]

\* ---------------------------------------------------------- subscriptions
HasPlan(subs, plan_code) == \E i \in 1..Len(subs) : subs[i].planCode = plan_code

\* index of the first subscription with that plan code
PlanIndex(subs, plan_code) ==
    CHOOSE i \in 1..Len(subs) :
        /\ subs[i].planCode = plan_code
        /\ \A j \in 1..(i - 1) : subs[j].planCode # plan_code

\* variant: the update branch also takes last_status and history from the call
add_subscription_Reset(subs, plan_code, datacenters, notify_available, notify_unavailable, server_name, last_status, history_arg, auto_order, auto_order_quantity) ==
    LET kept == SelectSeq(subs, LAMBDA s : s.planCode # plan_code)
        fresh == [planCode |-> plan_code, datacenters |-> datacenters,
                  notifyAvailable |-> notify_available, notifyUnavailable |-> notify_unavailable,
                  autoOrder |-> auto_order, autoOrderQuantity |-> auto_order_quantity,
                  serverName |-> server_name, lastStatus |-> last_status, history |-> history_arg]
    IN IF HasPlan(subs, plan_code)
       THEN [subs EXCEPT ![PlanIndex(subs, plan_code)] = fresh]
       ELSE Append(kept, fresh)

\* variant: no lookup of an existing subscription, the call always appends
add_subscription_Append(subs, plan_code, datacenters, notify_available, notify_unavailable, server_name, last_status, history_arg, auto_order, auto_order_quantity) ==
    Append(subs, [planCode |-> plan_code, datacenters |-> datacenters,
                  notifyAvailable |-> notify_available, notifyUnavailable |-> notify_unavailable,
                  autoOrder |-> auto_order, autoOrderQuantity |-> auto_order_quantity,
                  serverName |-> server_name, lastStatus |-> last_status, history |-> history_arg])

\* (serverName = None stands for both an absent key and a None value: every
\* reader uses subscription.get("serverName"))
add_subscription(subs, plan_code, datacenters, notify_available, notify_unavailable, server_name, last_status, history_arg, auto_order, auto_order_quantity) ==
    IF HasPlan(subs, plan_code) THEN
        [subs EXCEPT ![PlanIndex(subs, plan_code)] =
            [@ EXCEPT !.datacenters = datacenters,
                      !.notifyAvailable = notify_available,
                      !.notifyUnavailable = notify_unavailable,
                      !.autoOrder = auto_order,
                      !.autoOrderQuantity = auto_order_quantity,
                      !.serverName = server_name]]
    ELSE
        Append(subs, [planCode |-> plan_code,
                      datacenters |-> datacenters,
                      notifyAvailable |-> notify_available,
                      notifyUnavailable |-> notify_unavailable,
                      autoOrder |-> auto_order,
                      autoOrderQuantity |-> auto_order_quantity,
                      serverName |-> server_name,
                      lastStatus |-> last_status,
                      history |-> history_arg])

\* remove_subscription: the store without the subscriptions of that plan
\* code, and the value returned
remove_subscription(subs, plan_code) ==
    LET kept == SelectSeq(subs, LAMBDA s : s.planCode # plan_code)
    IN [subs |-> kept, ret |-> Len(kept) < Len(subs)]

\* clear_subscriptions: the empty store, and the value returned
clear_subscriptions(subs) == [subs |-> <<>>, ret |-> Len(subs)]

\* variant: a check without snapshot forgets the statuses of its subscription
SkipCycle_Forget(subs) == [i \in 1..Len(subs) |-> [subs[i] EXCEPT !.lastStatus = EmptyDict]]

\* the store as a check without snapshot leaves it: the early return, or the
\* handler around the whole check, comes before any write
SkipCycle(subs) == subs

\* the subscription the poll thread is checking, and its two mutable fields
Sub == subscriptions[PlanIndex(subscriptions, PlanCode)]

lastStatus == Sub.lastStatus

history == Sub.history

WithLastStatus(subs, ls) == [subs EXCEPT ![PlanIndex(subs, PlanCode)].lastStatus = ls]

WithHistory(subs, h) == [subs EXCEPT ![PlanIndex(subs, PlanCode)].history = h]

\* ------------------------------------------------------- price resolution
PriceOutcomes == {"ok", "fail", "raise"}

\* variant: a priced answer is cached but the plan code is not marked valid
_get_price_info_NoMark(cache, valid, plan_code, options, outcome, current_time) ==
    LET r == _get_cached_price(cache, plan_code, options, current_time) IN
    IF r.price # 0 THEN
        [price |-> r.price, cache |-> r.cache, valid |-> valid, called |-> FALSE]
    ELSE IF outcome = "ok" THEN
        [price |-> Quote(options),
         cache |-> _set_cached_price(r.cache, plan_code, options, Quote(options), current_time),
         valid |-> valid,
         called |-> TRUE]
    ELSE
        [price |-> 0, cache |-> r.cache, valid |-> valid, called |-> TRUE]

\* _get_price_info: cache first, then one call to the price service whose
\* outcome is ok (a priced quote), fail (error answer, transport error, no
\* withTax) or raise (any other exception, caught by the function itself)
_get_price_info(cache, valid, plan_code, options, outcome, current_time) ==
    LET r == _get_cached_price(cache, plan_code, options, current_time) IN
    IF r.price # 0 THEN
        [price |-> r.price, cache |-> r.cache, valid |-> valid, called |-> FALSE]
    ELSE IF outcome = "ok" THEN
        [price |-> Quote(options),
         cache |-> _set_cached_price(r.cache, plan_code, options, Quote(options), current_time),
         valid |-> valid \cup {plan_code},
         called |-> TRUE]
    ELSE
        [price |-> 0, cache |-> r.cache, valid |-> valid, called |-> TRUE]

\* one call to the price service, and whether it came back with a price
Lookup(api, dc, options, outcome) ==
    [api |-> api, dc |-> dc, options |-> options, priced |-> outcome = "ok"]

Notification(kind, change_type, dcs, cfg, price, duration) ==
    [kind |-> kind, change_type |-> change_type, dcs |-> dcs, config |-> cfg,
     price |-> price, duration |-> duration]

\* ---------------------------------------------------------------- flat path
FlatOutcomes == PriceOutcomes \cup {"timeout"}

\* _check_and_notify_change for the flat entry of dc, on the state st =
\* [history, cache, valid, sent, delivered, lookups, late, raised]; outcome is
\* what the price thread of send_availability_alert meets (timeout: the 15 s
\* join expires, the message goes out without price and the thread finishes
\* later); delivery is what send_notification does with the message. The
\* handler of send_availability_alert reads traceback, a name its own body
\* imports in the handler of the price block only: when send_notification
\* raises, the handler raises in turn and the history entry is not appended
_check_and_notify_change(st, sub, plan_code, dc, status, old_status, outcome, delivery, current_time) ==
    LET change_type == ClassifyFlat(sub, old_status, status)
        duration_text == DurationFlat(st.history, dc, change_type, current_time)
        timed_out == outcome = "timeout"
        r == _get_price_info(st.cache, st.valid, plan_code, <<>>,
                             IF timed_out THEN "fail" ELSE outcome, current_time)
        priced == change_type = "available"
        misses == priced /\ r.called
        entry == HistoryEntry(current_time, dc, status, change_type, old_status, None)
    IN IF change_type = None THEN st
       ELSE [history |-> IF delivery = "raised" THEN st.history
                         ELSE TrimHistory(Append(st.history, entry)),
             cache |-> IF priced THEN r.cache ELSE st.cache,
             valid |-> IF priced THEN r.valid ELSE st.valid,
             sent |-> Append(st.sent,
                        Notification("single", change_type, <<<<dc, status>>>>, None,
                                     IF priced THEN r.price ELSE 0, duration_text)),
             delivered |-> Append(st.delivered, delivery),
             lookups |-> IF misses THEN Append(st.lookups, Lookup("price", dc, <<>>, outcome))
                         ELSE st.lookups,
             late |-> IF misses /\ timed_out THEN st.late + 1 ELSE st.late,
             raised |-> delivery = "raised"]

\* the flat entries of the snapshot, in dict order, up to the first one
\* whose alert raises
RECURSIVE FlatLoop(_, _, _, _, _, _, _, _)
FlatLoop(i, st, sub, last_status, snap, outs, dels, current_time) ==
    IF i > Len(DCOrder) \/ st.raised THEN st
    ELSE LET dc == DCOrder[i] IN
         IF dc \in DOMAIN snap.flat /\ InScope(sub, dc)
         THEN FlatLoop(i + 1,
                       _check_and_notify_change(st, sub, sub.planCode, dc, snap.flat[dc],
                                                Get(last_status, FlatKey(dc)), outs[dc],
                                                dels[dc], current_time),
                       sub, last_status, snap, outs, dels, current_time)
         ELSE FlatLoop(i + 1, st, sub, last_status, snap, outs, dels, current_time)

\* ------------------------------------------- configuration-aware detection
\* the datacenter of a structured entry produces a notification intent
Triggers(sub, last_status, config_key, dcmap, dc) ==
    /\ dc \in DOMAIN dcmap
    /\ InScope(sub, dc)
    /\ ~GuardSkips(sub, last_status, StatusKey(dc, config_key), config_key,
                   Get(last_status, StatusKey(dc, config_key)), dcmap[dc])
    /\ ClassifyConfig(sub, Get(last_status, StatusKey(dc, config_key)), dcmap[dc]) # None

\* notifications_to_send of one configuration, in the order of its datacenters
NotificationsToSend(sub, last_status, config_key, dcmap) ==
    LET dcs == SelectSeq(DCOrder, LAMBDA dc : Triggers(sub, last_status, config_key, dcmap, dc))
    IN [i \in 1..Len(dcs) |->
            [dc |-> dcs[i],
             status |-> dcmap[dcs[i]],
             old_status |-> Get(last_status, StatusKey(dcs[i], config_key)),
             status_key |-> StatusKey(dcs[i], config_key),
             change_type |-> ClassifyConfig(sub, Get(last_status, StatusKey(dcs[i], config_key)),
                                            dcmap[dcs[i]])]]

AvailableOf(notifs) == SelectSeq(notifs, LAMBDA n : n.change_type = "available")

UnavailableOf(notifs) == SelectSeq(notifs, LAMBDA n : n.change_type = "unavailable")

\* variant: the last availability of the list is taken
FirstAvailableDc_Last(notifs) ==
    LET av == SelectSeq(notifs, LAMBDA n : n.change_type = "available" /\ n.status # Unavailable)
    IN IF av = <<>> THEN None ELSE av[Len(av)].dc

\* first notification of the list that is an availability, None when there is none
FirstAvailableDc(notifs) ==
    LET av == SelectSeq(notifs, LAMBDA n : n.change_type = "available" /\ n.status # Unavailable)
    IN IF av = <<>> THEN None ELSE av[1].dc

\* one iteration of the classification loop for a structured entry, on
\* cs = [cache, results, tasks, first_available_dc, config_info].  With a
\* cached price the iteration only sets its local price_text: no entry is
\* put in config_results and no task is queued.
ClassifyEntry(cs, sub, last_status, config_key, dcmap, current_time) ==
    LET notifs == NotificationsToSend(sub, last_status, config_key, dcmap)
        first_dc == FirstAvailableDc(notifs)
        r == _get_cached_price(cs.cache, sub.planCode, ConfigInfo(config_key).options, current_time)
        result == [notifications_to_send |-> notifs, price_text |-> 0]
    IN IF notifs = <<>> THEN
           [cs EXCEPT !.results = Put(@, config_key, result),
                      !.config_info = config_key]
       ELSE IF first_dc = None THEN
           [cs EXCEPT !.results = Put(@, config_key, result),
                      !.first_available_dc = None,
                      !.config_info = config_key]
       ELSE IF r.price # 0 THEN
           [cs EXCEPT !.cache = r.cache,
                      !.first_available_dc = first_dc,
                      !.config_info = config_key]
       ELSE
           [cs EXCEPT !.cache = r.cache,
                      !.results = Put(@, config_key, result),
                      !.tasks = @ \cup {config_key},
                      !.first_available_dc = first_dc,
                      !.config_info = config_key]

\* the structured entries of the snapshot, in dict order
RECURSIVE ConfigLoop(_, _, _, _, _, _)
ConfigLoop(i, cs, sub, last_status, snap, current_time) ==
    IF i > Len(ConfigOrder) THEN cs
    ELSE LET c == ConfigOrder[i] IN
         IF c \in DOMAIN snap.configs
         THEN ConfigLoop(i + 1, ClassifyEntry(cs, sub, last_status, c, snap.configs[c], current_time),
                         sub, last_status, snap, current_time)
         ELSE ConfigLoop(i + 1, cs, sub, last_status, snap, current_time)

\* keys of config_results in insertion order
ResultOrder(results) == SelectSeq(ConfigOrder, LAMBDA c : c \in DOMAIN results)

\* variant: lastStatus is replaced by the statuses of the snapshot
MergeStatus_Replace(last_status, snap) == SnapshotStatus(snap)

\* variant: the merge leaves lastStatus as it is
MergeStatus_Keep(last_status, snap) == last_status

\* variant: the merge updates the keys lastStatus has and adds none
MergeStatus_KnownOnly(last_status, snap) ==
    [k \in DOMAIN last_status |->
        IF k \in DOMAIN SnapshotStatus(snap) THEN SnapshotStatus(snap)[k] ELSE last_status[k]]

\* the bulk merge at the end of the check
MergeStatus(last_status, snap) ==
    LET new == SnapshotStatus(snap)
    IN [k \in (DOMAIN last_status) \cup (DOMAIN new) |->
            IF k \in DOMAIN new THEN new[k] ELSE last_status[k]]

\* -------------------------------------------------------------- auto-order
\* outcome of the price verification call of the auto-order path: ok (200,
\* success and a price), fail (error answer or non-200), raise
\* (requests.exceptions.RequestException, caught next to the call), abort
\* (any other exception, caught by the handler around the whole order flow)
VerifyOutcomes == {"ok", "fail", "raise", "abort"}

OrderOutcomes == {"ok", "failed", "raised"}

order_count(sub) == IF sub.autoOrderQuantity > 0 THEN sub.autoOrderQuantity ELSE 1

\* the requests submitted to the pool: every datacenter of the group, order_count times each
OrderRequests(sub, available_notifications, config_key, is_valid_plan_code) ==
    LET c == order_count(sub) IN
    [k \in 1..(Len(available_notifications) * c) |->
        [planCode |-> sub.planCode,
         datacenter |-> available_notifications[((k - 1) \div c) + 1].dc,
         config |-> config_key,
         options |-> ConfigInfo(config_key).options,
         skipPriceCheck |-> is_valid_plan_code,
         skipDuplicateCheck |-> sub.autoOrderQuantity > 0,
         order_index |-> (k - 1) % c]]

\* variant: the pool takes as many workers as there are requests
max_workers_Unbounded(total_orders) == total_orders

\* ThreadPoolExecutor(max_workers=min(total_orders, 10))
max_workers(total_orders) == IF total_orders < 10 THEN total_orders ELSE 10

\* the request a free worker takes from the queue of the pool: the one
\* submitted first among those not yet begun
NextQueued(queued) == CHOOSE k \in queued : \A j \in queued : k <= j

\* variant: nothing is written after the submission
PinStatus_None(last_status, available_notifications) == last_status

\* the optimistic pin written right after the batch was submitted
RECURSIVE PinStatus(_, _)
PinStatus(last_status, available_notifications) ==
    IF available_notifications = <<>> THEN last_status
    ELSE LET n == Head(available_notifications) IN
         PinStatus(IF n.status # Unavailable THEN Put(last_status, n.status_key, n.status)
                   ELSE last_status,
                   Tail(available_notifications))

\* ---------------------------------------------------------- notifications
GroupDcs(available_notifications) ==
    [i \in 1..Len(available_notifications) |->
        <<available_notifications[i].dc, available_notifications[i].status>>]

\* variant: the entries are stored without their creation time
RECURSIVE IssueTokens_Undated(_, _, _, _, _)
IssueTokens_Undated(tokens, plan_code, available_notifications, config_key, current_time) ==
    IF available_notifications = <<>> THEN tokens
    ELSE IssueTokens_Undated(Put(tokens, Cardinality(DOMAIN tokens) + 1,
                                 [planCode |-> plan_code,
                                  datacenter |-> Head(available_notifications).dc,
                                  options |-> ConfigInfo(config_key).options,
                                  configInfo |-> config_key,
                                  timestamp |-> 0]),
                             plan_code, Tail(available_notifications), config_key, current_time)

\* send_availability_alert_grouped stores one token per datacenter of the group
RECURSIVE IssueTokens(_, _, _, _, _)
IssueTokens(tokens, plan_code, available_notifications, config_key, current_time) ==
    IF available_notifications = <<>> THEN tokens
    ELSE IssueTokens(Put(tokens, Cardinality(DOMAIN tokens) + 1,
                         [planCode |-> plan_code,
                          datacenter |-> Head(available_notifications).dc,
                          options |-> ConfigInfo(config_key).options,
                          configInfo |-> config_key,
                          timestamp |-> current_time]),
                     plan_code, Tail(available_notifications), config_key, current_time)


RECURSIVE AppendEntries(_, _, _, _)
AppendEntries(h, notifs, config_key, current_time) ==
    IF notifs = <<>> THEN h
    ELSE AppendEntries(Append(h, HistoryEntry(current_time, Head(notifs).dc, Head(notifs).status,
                                              Head(notifs).change_type, Head(notifs).old_status,
                                              config_key)),
                       Tail(notifs), config_key, current_time)

\* the per-datacenter unavailable notifications of one configuration, each
\* with its duration computed on the history as it is at that moment
RECURSIVE UnavailableAlerts(_, _, _, _)
UnavailableAlerts(h, notifs, config_key, current_time) ==
    IF notifs = <<>> THEN <<>>
    ELSE LET n == Head(notifs) IN
         <<Notification("single", n.change_type, <<<<n.dc, n.status>>>>, config_key, 0,
                        DurationConfig(h, n, config_key, current_time))>>
         \o UnavailableAlerts(AppendEntries(h, <<n>>, config_key, current_time),
                              Tail(notifs), config_key, current_time)

\* ------------------------------------------------------------ poll loop
\* positions of a loop thread in monitor_loop: "while" (about to test
\* self.running at the head of the loop), "for" (about to take subscription i
\* and test self.running), "check" (inside check_availability_change for
\* subscription i), "pause" (in the sleep that follows the check), "gate"
\* (about to test self.running before the wait), "wait" (in the chunked wait,
\* left chunks to go), "done" (monitor_loop has returned); outcome is what
\* the last check of the cycle did inside
LoopAt(at, i, left, outcome) == [at |-> at, i |-> i, left |-> left, outcome |-> outcome]

NewThread == LoopAt("while", 0, 0, None)

\* is_alive() of the thread start() created last
Alive(threads, t) == t \in DOMAIN threads /\ threads[t].at # "done"

\* variant: start() without the test of self.running
start_Unguarded(st) ==
    LET t == Cardinality(DOMAIN st.loops) + 1
    IN [running |-> TRUE, thread |-> t, loops |-> Put(st.loops, t, NewThread), ret |-> TRUE]

\* start() on st = [running, thread, loops]: the fields after the call and
\* the value returned
start(st) ==
    IF st.running THEN [running |-> st.running, thread |-> st.thread, loops |-> st.loops, ret |-> FALSE]
    ELSE LET t == Cardinality(DOMAIN st.loops) + 1
         IN [running |-> TRUE, thread |-> t, loops |-> Put(st.loops, t, NewThread), ret |-> TRUE]

\* stop() on st up to its join: running after the call, whether the caller
\* enters thread.join(timeout=3), and the value it will return
stop(st) ==
    IF ~st.running THEN [running |-> st.running, joins |-> FALSE, ret |-> FALSE]
    ELSE [running |-> FALSE, joins |-> st.thread # 0 /\ Alive(st.loops, st.thread), ret |-> TRUE]

\* variant: the head of the loop does not look at self.running
LoopHead_Blind(is_running, subs) ==
    IF subs = <<>> THEN LoopAt("gate", 0, 0, None) ELSE LoopAt("for", 1, 0, None)

\* while self.running: where the thread goes from the head of the loop
LoopHead(is_running, subs) ==
    IF ~is_running THEN LoopAt("done", 0, 0, None)
    ELSE IF subs = <<>> THEN LoopAt("gate", 0, 0, None)
    ELSE LoopAt("for", 1, 0, None)

\* what a check does inside: it returns, or something in it raises
CheckOutcomes == {"returned", "raised"}

\* variant: check_availability_change lets the exception out
Boundary_Propagate(outcome) == outcome

\* what monitor_loop sees of a check: the handler around the whole body of
\* check_availability_change catches what was raised, logs it and returns
Boundary(outcome) == "returned"

\* variant: a token resolves whatever its age
resolve_token_NoExpiry(tokens, token, current_time) ==
    IF token \in DOMAIN tokens THEN <<tokens[token]>> ELSE <<>>

\* resolution of the token an inbound user action carries: the descriptor
\* stored under it (as a one-element sequence) when the token is in the cache
\* and younger than the time to live, an error (the empty sequence) otherwise
resolve_token(tokens, token, current_time) ==
    IF token \in DOMAIN tokens /\ current_time - tokens[token].timestamp < message_uuid_cache_ttl
    THEN <<tokens[token]>>
    ELSE <<>>

\* ---------------------------------------------------------------- inputs
AutoOrderChoices == {<<FALSE, 0>>, <<TRUE, 0>>, <<TRUE, 2>>}

FilterChoices == {{}, {"gra"}}

TickSteps == {price_cache_ttl - 1, price_cache_ttl}

\* what add_subscription can be given to restore: nothing, or the state a
\* previous run persisted (statuses and history of both snapshot shapes)
RestoredStatus ==
    (<<"gra", "cfgA">> :> "unavailable") @@ (<<"rbx", "cfgA">> :> "unavailable")
    @@ (<<"gra", "cfgB">> :> "available") @@ (<<"gra">> :> "available")

RestoredHistory ==
    <<HistoryEntry(0 - 4, "gra", "available", "available", "unavailable", "cfgB"),
      HistoryEntry(0 - 3, "gra", "available", "available", None, None),
      HistoryEntry(0 - 2, "gra", "low", "available", "unavailable", "cfgA"),
      HistoryEntry(0 - 1, "rbx", "available", "available", None, "cfgB")>>

AddArgs(dcs, na, nu, ao, last_status, history_arg) ==
    [datacenters |-> dcs, notify_available |-> na, notify_unavailable |-> nu,
     auto_order |-> ao[1], auto_order_quantity |-> ao[2], server_name |-> None,
     last_status |-> last_status, history |-> history_arg]

\* arguments of add_subscription: a new subscription with or without a
\* datacenter filter, or one restored from persisted state
AddChoices ==
    {AddArgs(dcs, na, nu, ao, EmptyDict, <<>>) :
        dcs \in FilterChoices, na \in BOOLEAN, nu \in BOOLEAN, ao \in AutoOrderChoices}
    \cup {AddArgs({}, na, nu, ao, RestoredStatus, RestoredHistory) :
        na \in BOOLEAN, nu \in BOOLEAN, ao \in AutoOrderChoices}

\* the two ways a subscription comes into the store: new, or restored
Fresh == [last_status |-> EmptyDict, history |-> <<>>]

Restored == [last_status |-> RestoredStatus, history |-> RestoredHistory]

\* auto-order subscriptions, and what one configuration can report for
\* its two datacenters (plus one snapshot of another configuration)
OrderChoices ==
    {AddArgs({}, na, nu, ao, r.last_status, r.history) :
        na \in BOOLEAN, nu \in BOOLEAN, ao \in {<<TRUE, 0>>, <<TRUE, 2>>},
        r \in {Fresh, Restored}}

OrderSnapshots ==
    {EmptySnapshot}
    \cup {SnapshotOf(<<"gra", "cfgA">> :> st) : st \in Statuses}
    \cup {SnapshotOf(<<"rbx", "cfgA">> :> "available"),
          SnapshotOf(<<"gra", "cfgB">> :> "available"),
          SnapshotOf((<<"gra", "cfgA">> :> "available") @@ (<<"rbx", "cfgA">> :> "available"))}

\* a notify-only subscription, and snapshots whose price lookups use the
\* three cache keys (no option, the options of cfgA, those of cfgB)
CacheChoices ==
    {AddArgs({}, TRUE, nu, <<FALSE, 0>>, r.last_status, r.history) :
        nu \in BOOLEAN, r \in {Fresh, Restored}}

CacheSnapshots ==
    {EmptySnapshot}
    \cup {SnapshotOf(k :> st) : k \in {<<"gra">>, <<"gra", "cfgA">>},
                               st \in {"unavailable", "available"}}
    \cup {SnapshotOf(<<"gra", "cfgB">> :> "available"),
          SnapshotOf((<<"gra", "cfgA">> :> "available") @@ (<<"gra", "cfgB">> :> "available"))}

\* subscriptions that notify losses, and snapshots that lose and recover
\* datacenters of both shapes
DurationChoices ==
    {AddArgs({}, na, TRUE, <<FALSE, 0>>, r.last_status, r.history) :
        na \in BOOLEAN, r \in {Fresh, Restored}}

DurationSnapshots ==
    {EmptySnapshot}
    \cup {SnapshotOf(k :> st) : k \in {<<"gra">>, <<"gra", "cfgA">>, <<"gra", "cfgB">>},
                               st \in {"unavailable", "available"}}
    \cup {SnapshotOf(<<"rbx", "cfgA">> :> "unavailable")}

\* every combination of the flags, and one snapshot of each shape
RepeatChoices ==
    {AddArgs({}, na, nu, ao, r.last_status, r.history) :
        na \in BOOLEAN, nu \in BOOLEAN, ao \in AutoOrderChoices, r \in {Fresh, Restored}}
    \cup {AddArgs({"gra"}, TRUE, TRUE, <<FALSE, 0>>, EmptyDict, <<>>)}

RepeatSnapshots ==
    {EmptySnapshot,
     SnapshotOf(<<"gra">> :> "available"),
     SnapshotOf(<<"gra">> :> "unavailable"),
     SnapshotOf(<<"gra", "cfgA">> :> "unavailable"),
     SnapshotOf(<<"rbx", "cfgA">> :> "low"),
     SnapshotOf((<<"gra", "cfgA">> :> "available") @@ (<<"rbx", "cfgA">> :> "available"))}

\* subscriptions with and without auto-order, and a snapshot source that
\* fails in every way between two answers
FetchChoices ==
    {AddArgs({}, TRUE, TRUE, ao, r.last_status, r.history) :
        ao \in {<<FALSE, 0>>, <<TRUE, 0>>}, r \in {Fresh, Restored}}

FetchSnapshots ==
    FetchFailures
    \cup {SnapshotOf(<<"gra", "cfgA">> :> st) : st \in {"unavailable", "available"}}

\* a persisted history of n entries, oldest first
LongHistory(n) ==
    [i \in 1..n |-> HistoryEntry(i - n - 1, "rbx", "available", "available", None, "cfgB")]

HistoryLengths == {HistoryLimit - 1, HistoryLimit, HistoryLimit + 1}

\* subscriptions restored with a history around the retention limit
HistoryChoices ==
    {AddArgs({}, na, nu, ao, EmptyDict, LongHistory(n)) :
        na \in BOOLEAN, nu \in BOOLEAN, ao \in {<<FALSE, 0>>, <<TRUE, 0>>}, n \in HistoryLengths}

HistorySnapshots ==
    {EmptySnapshot}
    \cup {SnapshotOf(k :> st) : k \in {<<"gra">>, <<"gra", "cfgA">>},
                               st \in {"unavailable", "available"}}
    \cup {SnapshotOf((<<"gra", "cfgA">> :> "available") @@ (<<"rbx", "cfgA">> :> "available"))}

NoClosure == [first_available_dc |-> None, config_info |-> None]

NoCheckStart == [lastStatus |-> EmptyDict, history |-> <<>>]

\* a subscription that notifies availability, snapshots that make it issue
\* one or two tokens, and clock advances around the tokens' time to live
TokenChoices == {AddArgs({}, TRUE, FALSE, <<FALSE, 0>>, EmptyDict, <<>>)}

TokenSnapshots ==
    {EmptySnapshot,
     SnapshotOf(<<"gra", "cfgA">> :> "available"),
     SnapshotOf(<<"gra", "cfgB">> :> "available"),
     SnapshotOf((<<"gra", "cfgA">> :> "available") @@ (<<"rbx", "cfgA">> :> "available"))}

TokenTickSteps == {message_uuid_cache_ttl - 1, message_uuid_cache_ttl, message_uuid_cache_ttl + 1}

\* subscriptions with and without a datacenter filter, and snapshots that
\* report a datacenter outside the filter, alone or next to one inside it
ScopeChoices ==
    {AddArgs(dcs, TRUE, TRUE, ao, r.last_status, r.history) :
        dcs \in FilterChoices, ao \in {<<FALSE, 0>>, <<TRUE, 0>>}, r \in {Fresh, Restored}}

ScopeSnapshots ==
    {EmptySnapshot,
     SnapshotOf(<<"rbx">> :> "available"),
     SnapshotOf((<<"gra">> :> "unavailable") @@ (<<"rbx">> :> "unavailable")),
     SnapshotOf(<<"rbx", "cfgA">> :> "low"),
     SnapshotOf((<<"gra", "cfgA">> :> "available") @@ (<<"rbx", "cfgA">> :> "available")),
     SnapshotOf((<<"gra", "cfgA">> :> "unavailable") @@ (<<"rbx", "cfgA">> :> "unavailable"))}

\* subscriptions notified of both kinds of change, and snapshots of both
\* shapes that gain and lose a datacenter
SendChoices ==
    {AddArgs({}, TRUE, TRUE, <<FALSE, 0>>, r.last_status, r.history) : r \in {Fresh, Restored}}

SendSnapshots ==
    {EmptySnapshot}
    \cup {SnapshotOf(k :> st) : k \in {<<"gra">>, <<"gra", "cfgA">>},
                               st \in {"unavailable", "available"}}
    \cup {SnapshotOf((<<"gra", "cfgA">> :> "available") @@ (<<"rbx", "cfgA">> :> "available"))}

\* an auto-order subscription whose notifyAvailable flag is set at creation
\* and by later calls of add_subscription, and snapshots in which a
\* configuration appears, stays, goes and comes back
FlagChoices ==
    {AddArgs({}, na, FALSE, <<TRUE, 0>>, EmptyDict, <<>>) : na \in BOOLEAN}

FlagSnapshots ==
    {EmptySnapshot,
     SnapshotOf(<<"gra">> :> "available"),
     SnapshotOf(<<"gra", "cfgA">> :> "unavailable"),
     SnapshotOf(<<"gra", "cfgA">> :> "available"),
     SnapshotOf(<<"rbx", "cfgA">> :> "low"),
     SnapshotOf(<<"gra", "cfgB">> :> "available")}

\* auto-order subscriptions whose batch is below, at and above the size of
\* the pool, on a group of one or two datacenters
PoolChoices ==
    {AddArgs({}, TRUE, FALSE, ao, EmptyDict, <<>>) : ao \in {<<TRUE, 0>>, <<TRUE, 5>>, <<TRUE, 6>>}}

PoolSnapshots ==
    {EmptySnapshot,
     SnapshotOf(<<"gra", "cfgA">> :> "available"),
     SnapshotOf((<<"gra", "cfgA">> :> "available") @@ (<<"rbx", "cfgA">> :> "available"))}

\* plan codes the store interface is called with
PlanCodes == {PlanCode, "24sk20"}

\* arguments of add_subscription that differ in every field it writes
StoreChoices ==
    {[datacenters |-> dcs, notify_available |-> n, notify_unavailable |-> ~n,
      auto_order |-> ao[1], auto_order_quantity |-> ao[2], server_name |-> name,
      last_status |-> r.last_status, history |-> r.history] :
        dcs \in FilterChoices, n \in BOOLEAN, ao \in {<<FALSE, 0>>, <<TRUE, 2>>},
        name \in {None, "KS-A"}, r \in {Fresh, Restored}}

\* a return value as Python prints it (None, True, False, 0, 1, ...)
ReprBool(b) == IF b THEN "True" ELSE "False"

ReprInt(n) == ToString(n)

\* the subscription added to a monitor whose lifecycle is exercised
LoopChoices == {AddArgs({}, TRUE, FALSE, <<FALSE, 0>>, EmptyDict, <<>>)}

\* a call of the store or lifecycle interface as last_call records it, ret
\* being the printed return value
Call(op, plan_code, args, ret) == [op |-> op, plan_code |-> plan_code, args |-> args, ret |-> ret]

NoCall == Call(None, None, None, None)

\* ------------------------------------------------------------------- Init
Init ==
    /\ subscriptions = <<>>
    /\ price_cache = EmptyDict
    /\ valid_plan_codes = {}
    /\ message_uuid_cache = EmptyDict
    /\ now = 0
    /\ late_lookups = 0
    /\ pc = "idle"
    /\ current_availability = EmptySnapshot
    /\ config_results = EmptyDict
    /\ todo = <<>>
    /\ price_query_tasks = {}
    /\ closure = NoClosure
    /\ inflight = {}
    /\ working = {}
    /\ probing = EmptyDict
    /\ sent = <<>>
    /\ delivered = <<>>
    /\ orders = <<>>
    /\ order_outcomes = {}
    /\ lookups = <<>>
    /\ check_start = NoCheckStart
    /\ prev_snapshot = EmptySnapshot
    /\ priced_ok = {}
    /\ nchecks = 0
    /\ nticks = 0
    /\ fetched = None
    /\ last_call = NoCall
    /\ running = FALSE
    /\ thread = 0
    /\ loops = EmptyDict
    /\ joining = FALSE
    /\ iterated = EmptyDict
    /\ known_servers = {}
    /\ new_server_alerts = <<>>
    /\ announced = {}

\* ---------------------------------------------------------------- actions
\* add_subscription, called before the first check (restoring lastStatus
\* and history when given)
AddSubscription(choices) ==
    /\ pc = "idle"
    /\ subscriptions = <<>>
    /\ \E a \in choices :
          /\ subscriptions' = add_subscription(subscriptions, PlanCode, a.datacenters,
                                               a.notify_available, a.notify_unavailable,
                                               a.server_name, a.last_status, a.history,
                                               a.auto_order, a.auto_order_quantity)
          /\ last_call' = Call("add_subscription", PlanCode, a, None)
    /\ UNCHANGED <<price_cache, valid_plan_codes, message_uuid_cache, now, late_lookups, pc,
                   check_start, prev_snapshot, priced_ok, nchecks, nticks, fetched>>
    /\ UNCHANGED localVars
    /\ UNCHANGED logVars
    /\ UNCHANGED loopVars
    /\ UNCHANGED serverVars

\* everything but the lifecycle and the record of the last call
nonLoopVars == <<subscriptions, price_cache, valid_plan_codes, message_uuid_cache, now, late_lookups, pc, check_start, prev_snapshot, priced_ok, nchecks, nticks, fetched, known_servers, new_server_alerts, announced>>

\* start(), called when no call of stop() is in progress
Start ==
    /\ ~joining
    /\ running \/ Cardinality(DOMAIN loops) < MaxStarts
    /\ LET r == start([running |-> running, thread |-> thread, loops |-> loops])
       IN /\ running' = r.running
          /\ thread' = r.thread
          /\ loops' = r.loops
          /\ last_call' = Call("start", None, None, ReprBool(r.ret))
    /\ UNCHANGED <<joining, iterated>>
    /\ UNCHANGED nonLoopVars
    /\ UNCHANGED localVars
    /\ UNCHANGED logVars

\* stop() up to its join: it returns at once when the monitor is stopped or
\* the thread has exited
StopCall ==
    /\ ~joining
    /\ LET r == stop([running |-> running, thread |-> thread, loops |-> loops])
       IN /\ running' = r.running
          /\ joining' = r.joins
          /\ last_call' = IF r.joins THEN last_call
                          ELSE Call("stop", None, None, ReprBool(r.ret))
    /\ UNCHANGED <<thread, loops, iterated>>
    /\ UNCHANGED nonLoopVars
    /\ UNCHANGED localVars
    /\ UNCHANGED logVars

\* thread.join(timeout=3) returns: the thread has exited, or the three
\* seconds are over while it is still inside a check (outside a check the
\* thread tests self.running again within a second)
StopReturn ==
    /\ joining
    /\ ~Alive(loops, thread) \/ loops[thread].at = "check"
    /\ joining' = FALSE
    /\ last_call' = Call("stop", None, None, ReprBool(TRUE))
    /\ UNCHANGED <<running, thread, loops, iterated>>
    /\ UNCHANGED nonLoopVars
    /\ UNCHANGED localVars
    /\ UNCHANGED logVars

\* what a step of a loop thread leaves alone
LoopFrame ==
    /\ UNCHANGED <<running, thread, joining, last_call>>
    /\ UNCHANGED nonLoopVars
    /\ UNCHANGED localVars
    /\ UNCHANGED logVars

\* while self.running: enter the cycle (the for loop when there are
\* subscriptions, else straight to the wait), or leave monitor_loop
LoopWhile(t) ==
    /\ t \in DOMAIN loops
    /\ loops[t].at = "while"
    /\ loops' = [loops EXCEPT ![t] = LoopHead(running, subscriptions)]
    /\ UNCHANGED iterated
    /\ LoopFrame

\* the list object the for loop of thread t walks: the one self.subscriptions
\* named when the loop started, which add_subscription appends to in place
\* and remove_subscription and clear_subscriptions replace
Iterated(t) ==
    IF t \in DOMAIN iterated THEN iterated[t]
    ELSE [i \in 1..Len(subscriptions) |-> subscriptions[i].planCode]

\* self.subscriptions is bound to a new list: the for loops in progress keep
\* the list they started on
Rebound(it, threads, subs) ==
    [t \in DOMAIN it \cup {u \in DOMAIN threads : threads[u].at \in {"for", "check", "pause"}} |->
        IF t \in DOMAIN it THEN it[t] ELSE [i \in 1..Len(subs) |-> subs[i].planCode]]

\* the for loop of thread t is over
Released(it, t) == [u \in DOMAIN it \ {t} |-> it[u]]

\* for subscription in self.subscriptions: if not self.running: break
LoopNext(t) ==
    /\ t \in DOMAIN loops
    /\ loops[t].at = "for"
    /\ IF loops[t].i > Len(Iterated(t)) \/ ~running
       THEN /\ loops' = [loops EXCEPT ![t] = LoopAt("gate", 0, 0, None)]
            /\ iterated' = Released(iterated, t)
       ELSE /\ loops' = [loops EXCEPT ![t] = LoopAt("check", loops[t].i, 0, loops[t].outcome)]
            /\ UNCHANGED iterated
    /\ LoopFrame

\* the check of subscription i comes to its end; an exception that gets out
\* of it goes to the handler of the cycle, which logs it and falls through
\* to the wait
LoopCheckDone(t) ==
    /\ t \in DOMAIN loops
    /\ loops[t].at = "check"
    /\ \E outcome \in CheckOutcomes :
          IF Boundary(outcome) = "raised"
          THEN /\ loops' = [loops EXCEPT ![t] = LoopAt("gate", 0, 0, outcome)]
               /\ iterated' = Released(iterated, t)
          ELSE /\ loops' = [loops EXCEPT ![t] = LoopAt("pause", loops[t].i, 0, outcome)]
               /\ UNCHANGED iterated
    /\ LoopFrame

\* time.sleep(1) after the check
LoopPause(t) ==
    /\ t \in DOMAIN loops
    /\ loops[t].at = "pause"
    /\ loops' = [loops EXCEPT ![t] = LoopAt("for", loops[t].i + 1, 0, loops[t].outcome)]
    /\ UNCHANGED iterated
    /\ LoopFrame

\* if self.running: read check_interval and start the chunked wait
LoopGate(t) ==
    /\ t \in DOMAIN loops
    /\ loops[t].at = "gate"
    /\ loops' = [loops EXCEPT ![t] =
                    IF running THEN LoopAt("wait", 0, check_interval, None)
                    ELSE LoopAt("while", 0, 0, None)]
    /\ UNCHANGED iterated
    /\ LoopFrame

\* one chunk of the wait: if not self.running: break, else time.sleep(1)
LoopWait(t) ==
    /\ t \in DOMAIN loops
    /\ loops[t].at = "wait"
    /\ loops' = [loops EXCEPT ![t] =
                    IF loops[t].left = 0 \/ ~running THEN LoopAt("while", 0, 0, None)
                    ELSE LoopAt("wait", 0, loops[t].left - 1, None)]
    /\ UNCHANGED iterated
    /\ LoopFrame

\* one step of loop thread t
LoopStep(t) ==
    \/ LoopWhile(t)
    \/ LoopNext(t)
    \/ LoopCheckDone(t)
    \/ LoopPause(t)
    \/ LoopGate(t)
    \/ LoopWait(t)

\* a user action arrives with a token: one that was issued, or the next one
\* (never issued)
ResolveToken ==
    /\ pc = "idle"
    /\ \E token \in 1..(Cardinality(DOMAIN message_uuid_cache) + 1) :
          last_call' = Call("resolve_token", None, [token |-> token],
                            resolve_token(message_uuid_cache, token, now))
    /\ UNCHANGED <<running, thread, loops, joining, iterated>>
    /\ UNCHANGED nonLoopVars
    /\ UNCHANGED localVars
    /\ UNCHANGED logVars

\* everything but the store and the record of the last call
nonStoreVars == <<price_cache, valid_plan_codes, message_uuid_cache, now, late_lookups, pc, check_start, prev_snapshot, priced_ok, nchecks, nticks, fetched, known_servers, new_server_alerts, announced>>

\* add_subscription called at any time between two checks, for a plan code
\* that may already be subscribed
Subscribe(plan_codes, choices) ==
    /\ pc = "idle"
    /\ \E p \in plan_codes, a \in choices :
          /\ subscriptions' = add_subscription(subscriptions, p, a.datacenters,
                                               a.notify_available, a.notify_unavailable,
                                               a.server_name, a.last_status, a.history,
                                               a.auto_order, a.auto_order_quantity)
          /\ last_call' = Call("add_subscription", p, a, None)
    /\ UNCHANGED nonStoreVars
    /\ UNCHANGED localVars
    /\ UNCHANGED logVars
    /\ UNCHANGED loopVars

RemoveSubscription(plan_codes) ==
    /\ pc = "idle"
    /\ \E p \in plan_codes :
          LET r == remove_subscription(subscriptions, p)
          IN /\ subscriptions' = r.subs
             /\ last_call' = Call("remove_subscription", p, None, ReprBool(r.ret))
    /\ iterated' = Rebound(iterated, loops, subscriptions)
    /\ UNCHANGED <<running, thread, loops, joining>>
    /\ UNCHANGED nonStoreVars
    /\ UNCHANGED localVars
    /\ UNCHANGED logVars

ClearSubscriptions ==
    /\ pc = "idle"
    /\ LET r == clear_subscriptions(subscriptions)
       IN /\ subscriptions' = r.subs
          /\ last_call' = Call("clear_subscriptions", None, None, ReprInt(r.ret))
    /\ iterated' = Rebound(iterated, loops, subscriptions)
    /\ UNCHANGED <<running, thread, loops, joining>>
    /\ UNCHANGED nonStoreVars
    /\ UNCHANGED localVars
    /\ UNCHANGED logVars

\* ------------------------------------------------------------ new servers
\* plan codes of the catalogue, and the lists check_new_servers is given: up
\* to MaxList entries, each with a plan code or without (None)
ServerCodes == {"24ska01", "24sk20", "24sk30"}

MaxList == 3

Server(code) == [planCode |-> code]

ServerLists ==
    UNION {[1..n -> {Server(c) : c \in ServerCodes \cup {None}}] : n \in 0..MaxList}

\* {s.get("planCode") for s in current_server_list if s.get("planCode")}
CurrentCodes(current_server_list) ==
    {current_server_list[i].planCode : i \in 1..Len(current_server_list)} \ {None}

\* next((s for s in current_server_list if s.get("planCode") == server_code), None)
FirstServer(current_server_list, server_code) ==
    current_server_list[CHOOSE i \in 1..Len(current_server_list) :
                           /\ current_server_list[i].planCode = server_code
                           /\ \A j \in 1..(i - 1) : current_server_list[j].planCode # server_code]

\* check_new_servers on the known set: the set after the call, and the
\* plan codes it walks to send one alert each
check_new_servers(known, current_server_list) ==
    LET current_codes == CurrentCodes(current_server_list)
        new_servers == current_codes \ known
    IN IF known = {} THEN [known |-> current_codes, new_servers |-> {}]
       ELSE IF new_servers # {} THEN [known |-> current_codes, new_servers |-> new_servers]
       ELSE [known |-> known, new_servers |-> {}]

\* the orders in which a for loop can walk a set
Walks(s) ==
    {w \in [1..Cardinality(s) -> s] : \A i, j \in 1..Cardinality(s) : w[i] = w[j] => i = j}

\* check_new_servers is called with a server list
CheckNewServers(lists) ==
    /\ \E l \in lists :
          LET r == check_new_servers(known_servers, l)
          IN /\ known_servers' = r.known
             /\ \E w \in Walks(r.new_servers) :
                   new_server_alerts' = [i \in 1..Len(w) |-> FirstServer(l, w[i])]
             /\ announced' = announced \cup r.new_servers
                                       \cup (IF known_servers = {} THEN r.known ELSE {})
             /\ last_call' = Call("check_new_servers", None, l, None)
    /\ UNCHANGED <<subscriptions, price_cache, valid_plan_codes, message_uuid_cache, now,
                   late_lookups, pc, check_start, prev_snapshot, priced_ok, nchecks, nticks,
                   fetched>>
    /\ UNCHANGED localVars
    /\ UNCHANGED logVars
    /\ UNCHANGED loopVars

\* time passes between two checks
Tick(steps) ==
    /\ pc = "idle"
    /\ nchecks >= 1
    /\ nchecks < MaxChecks
    /\ nticks < MaxTicks
    /\ \E step \in steps : now' = now + step
    /\ nticks' = nticks + 1
    /\ UNCHANGED <<pc, check_start, prev_snapshot, priced_ok, nchecks, fetched, last_call>>
    /\ UNCHANGED loopVars
    /\ UNCHANGED serverVars
    /\ UNCHANGED storeVars
    /\ UNCHANGED localVars
    /\ UNCHANGED logVars

\* a price thread that outlived its join finishes
LatePriceDone ==
    /\ late_lookups > 0
    /\ late_lookups' = late_lookups - 1
    /\ \E outcome \in PriceOutcomes :
          IF outcome = "ok"
          THEN /\ price_cache' = _set_cached_price(price_cache, PlanCode, <<>>, Quote(<<>>), now)
               /\ valid_plan_codes' = valid_plan_codes \cup {PlanCode}
               /\ priced_ok' = priced_ok \cup {PlanCode}
          ELSE UNCHANGED <<price_cache, valid_plan_codes, priced_ok>>
    /\ UNCHANGED <<subscriptions, message_uuid_cache, now, pc, check_start, prev_snapshot,
                   nchecks, nticks, fetched, last_call>>
    /\ UNCHANGED loopVars
    /\ UNCHANGED serverVars
    /\ UNCHANGED localVars
    /\ UNCHANGED logVars

\* what send_notification does with a message: it returns True, returns
\* False, or raises. send_availability_alert_grouped logs the three and
\* returns nothing; send_availability_alert does so for the first two
SendOutcomes == {"sent", "failed", "raised"}

\* check_availability_change up to the end of the classification loop: the
\* snapshot is fetched, flat entries are handled on the spot, structured
\* entries are classified and their price tasks queued; an alert that raises
\* takes the check to its handler
CheckStartSend(snapshots, deliveries) ==
    /\ pc = "idle"
    /\ subscriptions # <<>>
    /\ nchecks < MaxChecks
    /\ nchecks' = nchecks + 1
    /\ \E snap \in snapshots :
        IF snap \in FetchFailures THEN
            /\ prev_snapshot' = EmptySnapshot
            /\ fetched' = FetchKind(snap)
            /\ subscriptions' = SkipCycle(subscriptions)
            /\ UNCHANGED <<pc, check_start, priced_ok>>
            /\ UNCHANGED <<price_cache, valid_plan_codes, message_uuid_cache, late_lookups>>
            /\ UNCHANGED localVars
            /\ UNCHANGED logVars
        ELSE \E outs \in [DOMAIN snap.flat -> FlatOutcomes],
                dels \in [DOMAIN snap.flat -> deliveries] :
            LET st == FlatLoop(1, [history |-> history, cache |-> price_cache,
                                   valid |-> valid_plan_codes, sent |-> <<>>,
                                   delivered |-> <<>>, lookups |-> <<>>,
                                   late |-> late_lookups, raised |-> FALSE],
                               Sub, lastStatus, snap, outs, dels, now)
                cs0 == [cache |-> st.cache, results |-> EmptyDict, tasks |-> {},
                        first_available_dc |-> None, config_info |-> None]
                cs == IF st.raised THEN cs0
                      ELSE ConfigLoop(1, cs0, Sub, lastStatus, snap, now)
            IN /\ subscriptions' = WithHistory(subscriptions, st.history)
               /\ price_cache' = cs.cache
               /\ valid_plan_codes' = st.valid
               /\ late_lookups' = st.late
               /\ sent' = st.sent
               /\ delivered' = st.delivered
               /\ lookups' = st.lookups
               /\ orders' = <<>>
               /\ order_outcomes' = {}
               /\ current_availability' = snap
               /\ config_results' = cs.results
               /\ todo' = ResultOrder(cs.results)
               /\ price_query_tasks' = cs.tasks
               /\ closure' = [first_available_dc |-> cs.first_available_dc,
                              config_info |-> cs.config_info]
               /\ inflight' = {}
               /\ working' = {}
               /\ probing' = EmptyDict
               /\ check_start' = [lastStatus |-> lastStatus, history |-> history]
               /\ pc' = IF st.raised THEN "failed"
                        ELSE IF cs.tasks # {} THEN "price"
                        ELSE IF cs.results # EmptyDict THEN "process" ELSE "merge"
               /\ priced_ok' = IF \E i \in 1..Len(st.lookups) : st.lookups[i].priced
                               THEN priced_ok \cup {PlanCode} ELSE priced_ok
               /\ fetched' = FetchKind(snap)
               /\ UNCHANGED <<prev_snapshot, message_uuid_cache>>
    /\ UNCHANGED <<now, nticks, last_call>>
    /\ UNCHANGED loopVars
    /\ UNCHANGED serverVars

\* the same with a transport that delivers every message
CheckStart(snapshots) == CheckStartSend(snapshots, {"sent"})

\* one price task of the pool completes; fetch_price_task reads
\* first_available_dc and config_info when it runs, that is, as the
\* classification loop left them
PriceTaskDone ==
    /\ pc = "price"
    /\ \E c \in price_query_tasks, outcome \in PriceOutcomes :
        LET options == ConfigInfo(closure.config_info).options
            r == _get_price_info(price_cache, valid_plan_codes, PlanCode, options, outcome, now)
        IN /\ price_cache' = r.cache
           /\ valid_plan_codes' = r.valid
           /\ config_results' = IF r.price # 0
                                THEN [config_results EXCEPT ![c].price_text = r.price]
                                ELSE config_results
           /\ lookups' = IF r.called
                         THEN Append(lookups, Lookup("price", closure.first_available_dc, options,
                                                     outcome))
                         ELSE lookups
           /\ price_query_tasks' = price_query_tasks \ {c}
           /\ pc' = IF price_query_tasks \ {c} = {} THEN "process" ELSE "price"
           /\ priced_ok' = IF r.called /\ outcome = "ok" THEN priced_ok \cup {PlanCode}
                           ELSE priced_ok
    /\ UNCHANGED <<subscriptions, message_uuid_cache, now, late_lookups, current_availability,
                   todo, closure, inflight, working, probing, sent, delivered, orders, order_outcomes,
                   check_start, prev_snapshot, nchecks, nticks, fetched, last_call>>
    /\ UNCHANGED loopVars
    /\ UNCHANGED serverVars

\* the key a price task resolves: fetch_price_task reads config_info when it
\* runs, so every task of the check resolves the key of the same configuration
TaskKey == _get_price_cache_key(PlanCode, ConfigInfo(closure.config_info).options)

\* what a price task leaves untouched at every step
PriceTaskFrame ==
    /\ UNCHANGED <<subscriptions, message_uuid_cache, now, late_lookups, current_availability,
                   todo, closure, inflight, working, sent, delivered, orders, order_outcomes, check_start,
                   prev_snapshot, nchecks, nticks, fetched, last_call>>
    /\ UNCHANGED loopVars
    /\ UNCHANGED serverVars

\* the task of configuration c returns price_text (0 = None): the result is
\* collected, and the pool is left when it was the last task
PriceTaskEnds(c, price_text) ==
    /\ config_results' = IF price_text # 0
                         THEN [config_results EXCEPT ![c].price_text = price_text]
                         ELSE config_results
    /\ price_query_tasks' = price_query_tasks \ {c}
    /\ probing' = Del(probing, c)
    /\ pc' = IF price_query_tasks \ {c} = {} THEN "process" ELSE "price"

\* a worker of the pool takes a task and tests whether its key is cached:
\* "if cache_key in self.price_cache"
PriceTaskTest ==
    /\ pc = "price"
    /\ \E c \in price_query_tasks \ DOMAIN probing :
          /\ Cardinality(DOMAIN probing) < max_workers(Cardinality(price_query_tasks))
          /\ probing' = Put(probing, c, IF TaskKey \in DOMAIN price_cache THEN "hit" ELSE "call")
    /\ UNCHANGED <<price_cache, valid_plan_codes, config_results, lookups, price_query_tasks, pc,
                   priced_ok>>
    /\ PriceTaskFrame

\* the worker reads the entry it found and compares its age with the TTL; an
\* entry that is gone by now raises KeyError, which _get_price_info catches
PriceTaskRead ==
    /\ pc = "price"
    /\ \E c \in DOMAIN probing :
          /\ probing[c] = "hit"
          /\ IF TaskKey \notin DOMAIN price_cache
             THEN PriceTaskEnds(c, 0)
             ELSE IF CacheFresh(price_cache[TaskKey].timestamp, now)
                  THEN PriceTaskEnds(c, price_cache[TaskKey].price)
                  ELSE /\ probing' = [probing EXCEPT ![c] = "evict"]
                       /\ UNCHANGED <<config_results, price_query_tasks, pc>>
    /\ UNCHANGED <<price_cache, valid_plan_codes, lookups, priced_ok>>
    /\ PriceTaskFrame

\* the worker deletes the entry it found expired: "del self.price_cache[cache_key]"
PriceTaskEvict ==
    /\ pc = "price"
    /\ \E c \in DOMAIN probing :
          /\ probing[c] = "evict"
          /\ IF TaskKey \notin DOMAIN price_cache
             THEN /\ PriceTaskEnds(c, 0)
                  /\ UNCHANGED price_cache
             ELSE /\ price_cache' = Del(price_cache, TaskKey)
                  /\ probing' = [probing EXCEPT ![c] = "call"]
                  /\ UNCHANGED <<config_results, price_query_tasks, pc>>
    /\ UNCHANGED <<valid_plan_codes, lookups, priced_ok>>
    /\ PriceTaskFrame

\* the worker calls the price service and, on a priced answer, writes the
\* cache and marks the plan code valid
PriceTaskCall ==
    /\ pc = "price"
    /\ \E c \in DOMAIN probing, outcome \in PriceOutcomes :
          LET options == ConfigInfo(closure.config_info).options IN
          /\ probing[c] = "call"
          /\ lookups' = Append(lookups, Lookup("price", closure.first_available_dc, options,
                                               outcome))
          /\ IF outcome = "ok"
             THEN /\ price_cache' = _set_cached_price(price_cache, PlanCode, options,
                                                      Quote(options), now)
                  /\ valid_plan_codes' = valid_plan_codes \cup {PlanCode}
                  /\ priced_ok' = priced_ok \cup {PlanCode}
                  /\ PriceTaskEnds(c, Quote(options))
             ELSE /\ UNCHANGED <<price_cache, valid_plan_codes, priced_ok>>
                  /\ PriceTaskEnds(c, 0)
    /\ PriceTaskFrame

\* variant: the flow runs for every availability group, flag or no flag
NeedsOrder_Unflagged ==
    /\ todo # <<>>
    /\ AvailableOf(config_results[Head(todo)].notifications_to_send) # <<>>

\* the configuration at the head of todo needs the auto-order flow
NeedsOrder ==
    /\ todo # <<>>
    /\ AvailableOf(config_results[Head(todo)].notifications_to_send) # <<>>
    /\ Sub.autoOrder

\* auto-order flow of one configuration up to the optimistic pin: price
\* verification when the plan code is not known valid, submission of the
\* whole batch, then the write of the observed statuses into lastStatus
OrderSubmit ==
    /\ pc = "process"
    /\ NeedsOrder
    /\ LET c == Head(todo)
           available_notifications == AvailableOf(config_results[c].notifications_to_send)
           known == PlanCode \in valid_plan_codes
       IN \E outcome \in (IF known THEN {"skipped"} ELSE VerifyOutcomes) :
           LET is_valid_plan_code == known \/ outcome = "ok"
               batch == OrderRequests(Sub, available_notifications, c, is_valid_plan_code)
           IN /\ valid_plan_codes' = IF outcome = "ok" THEN valid_plan_codes \cup {PlanCode}
                                     ELSE valid_plan_codes
              /\ priced_ok' = IF outcome = "ok" THEN priced_ok \cup {PlanCode} ELSE priced_ok
              /\ lookups' = IF known THEN lookups
                            ELSE Append(lookups, Lookup("verify", FirstAvailableDc(available_notifications),
                                                        ConfigInfo(c).options, outcome))
              /\ IF outcome = "abort"
                 THEN /\ pc' = "notify"
                      /\ UNCHANGED <<subscriptions, orders, inflight>>
                 ELSE /\ orders' = orders \o batch
                      /\ inflight' = {Len(orders) + k : k \in 1..Len(batch)}
                      /\ subscriptions' = WithLastStatus(subscriptions,
                                                         PinStatus(lastStatus, available_notifications))
                      /\ pc' = "collect"
    /\ UNCHANGED <<price_cache, message_uuid_cache, now, late_lookups, current_availability,
                   config_results, todo, price_query_tasks, closure, working, probing, sent, delivered,
                   order_outcomes, check_start, prev_snapshot, nchecks, nticks, fetched, last_call>>
    /\ UNCHANGED loopVars
    /\ UNCHANGED serverVars

\* the as_completed loop: every request of the batch ends in success,
\* failure or an exception; the outcomes are only logged
CollectOutcomes ==
    /\ pc = "collect"
    /\ \E results \in [inflight -> OrderOutcomes] :
        order_outcomes' = order_outcomes \cup {results[k] : k \in inflight}
    /\ inflight' = {}
    /\ pc' = "notify"
    /\ UNCHANGED <<now, current_availability, config_results, todo, price_query_tasks, closure,
                   working, probing, sent, delivered, orders, lookups, check_start, prev_snapshot, priced_ok,
                   nchecks, nticks, fetched, last_call>>
    /\ UNCHANGED storeVars
    /\ UNCHANGED loopVars
    /\ UNCHANGED serverVars

\* a free worker of the order pool takes the next queued request and begins
\* place_order
OrderWorkerStart ==
    /\ pc = "collect"
    /\ inflight \ working # {}
    /\ Cardinality(working)
          < max_workers(Cardinality({i \in 1..Len(orders) : orders[i].config = Head(todo)}))
    /\ working' = working \cup {NextQueued(inflight \ working)}
    /\ UNCHANGED <<now, current_availability, config_results, todo, price_query_tasks, closure,
                   inflight, probing, sent, delivered, orders, order_outcomes, lookups, check_start,
                   prev_snapshot, priced_ok, nchecks, nticks, fetched, last_call, pc>>
    /\ UNCHANGED storeVars
    /\ UNCHANGED loopVars
    /\ UNCHANGED serverVars

\* place_order comes to its end in one worker (True, False, or an exception
\* kept in the future), and the as_completed loop collects and logs it; the
\* with block is left when every request has been collected
OrderWorkerDone ==
    /\ pc = "collect"
    /\ \E k \in working, outcome \in OrderOutcomes :
          /\ working' = working \ {k}
          /\ inflight' = inflight \ {k}
          /\ order_outcomes' = order_outcomes \cup {outcome}
          /\ pc' = IF inflight \ {k} = {} THEN "notify" ELSE "collect"
    /\ UNCHANGED <<now, current_availability, config_results, todo, price_query_tasks, closure,
                   probing, sent, delivered, orders, lookups, check_start, prev_snapshot, priced_ok,
                   nchecks, nticks, fetched, last_call>>
    /\ UNCHANGED storeVars
    /\ UNCHANGED loopVars
    /\ UNCHANGED serverVars

\* notifications and history of the configuration at the head of todo: the
\* grouped availability message with its tokens, one message per lost
\* datacenter, then the truncation of the history. The alert of a lost
\* datacenter that raises takes the check to its handler before the entry of
\* that datacenter is appended
NotifyConfigSend(deliveries) ==
    /\ \/ pc = "notify"
       \/ pc = "process" /\ ~NeedsOrder
    /\ LET c == Head(todo)
           notifs == config_results[c].notifications_to_send
           available_notifications == AvailableOf(notifs)
           unavailable_notifications == UnavailableOf(notifs)
           grouped == available_notifications # <<>>
           r == IF grouped /\ config_results[c].price_text = 0
                THEN _get_cached_price(price_cache, PlanCode, ConfigInfo(c).options, now)
                ELSE [price |-> config_results[c].price_text, cache |-> price_cache]
           h1 == AppendEntries(history, available_notifications, c, now)
           g == IF grouped THEN 1 ELSE 0
           n == Len(unavailable_notifications)
       IN \E d \in [1..(g + n) -> deliveries] :
          LET raising == {m \in 1..n : d[g + m] = "raised"}
              upto == IF raising = {} THEN n
                      ELSE CHOOSE m \in raising : \A m2 \in raising : m <= m2
              done == IF raising = {} THEN n ELSE upto - 1
              h2 == AppendEntries(h1, SubSeq(unavailable_notifications, 1, done), c, now)
          IN
          /\ price_cache' = r.cache
          /\ sent' = sent
                     \o (IF grouped
                         THEN <<Notification("grouped", "available", GroupDcs(available_notifications),
                                             c, r.price, <<>>)>>
                         ELSE <<>>)
                     \o UnavailableAlerts(h1, SubSeq(unavailable_notifications, 1, upto), c, now)
          /\ delivered' = delivered \o SubSeq(d, 1, g + upto)
          /\ message_uuid_cache' = IssueTokens(message_uuid_cache, PlanCode,
                                               available_notifications, c, now)
          /\ subscriptions' = WithHistory(subscriptions,
                                          IF raising = {} THEN TrimHistory(h2) ELSE h2)
          /\ todo' = IF raising = {} THEN Tail(todo) ELSE todo
          /\ pc' = IF raising # {} THEN "failed"
                   ELSE IF Tail(todo) = <<>> THEN "merge" ELSE "process"
          /\ order_outcomes' = {}
    /\ UNCHANGED <<valid_plan_codes, now, late_lookups, current_availability, config_results,
                   price_query_tasks, closure, inflight, working, probing, orders, lookups,
                   check_start, prev_snapshot, priced_ok, nchecks, nticks, fetched, last_call>>
    /\ UNCHANGED loopVars
    /\ UNCHANGED serverVars

\* the same with a transport that delivers every message
NotifyConfig == NotifyConfigSend({"sent"})

\* the bulk status merge, after which the check returns
Merge ==
    /\ pc = "merge"
    /\ subscriptions' = WithLastStatus(subscriptions, MergeStatus(lastStatus, current_availability))
    /\ prev_snapshot' = current_availability
    /\ pc' = "idle"
    /\ current_availability' = EmptySnapshot
    /\ config_results' = EmptyDict
    /\ todo' = <<>>
    /\ price_query_tasks' = {}
    /\ closure' = NoClosure
    /\ inflight' = {}
    /\ working' = {}
    /\ probing' = EmptyDict
    /\ sent' = <<>>
    /\ delivered' = <<>>
    /\ orders' = <<>>
    /\ order_outcomes' = {}
    /\ lookups' = <<>>
    /\ check_start' = NoCheckStart
    /\ UNCHANGED <<price_cache, valid_plan_codes, message_uuid_cache, now, late_lookups,
                   priced_ok, nchecks, nticks, fetched, last_call>>
    /\ UNCHANGED loopVars
    /\ UNCHANGED serverVars

\* the handler of check_availability_change: the exception is logged and
\* the check returns without the bulk status merge
CheckFailed ==
    /\ pc = "failed"
    /\ prev_snapshot' = current_availability
    /\ pc' = "idle"
    /\ current_availability' = EmptySnapshot
    /\ config_results' = EmptyDict
    /\ todo' = <<>>
    /\ price_query_tasks' = {}
    /\ closure' = NoClosure
    /\ inflight' = {}
    /\ working' = {}
    /\ probing' = EmptyDict
    /\ sent' = <<>>
    /\ delivered' = <<>>
    /\ orders' = <<>>
    /\ order_outcomes' = {}
    /\ lookups' = <<>>
    /\ check_start' = NoCheckStart
    /\ UNCHANGED <<now, priced_ok, nchecks, nticks, fetched, last_call>>
    /\ UNCHANGED storeVars
    /\ UNCHANGED loopVars
    /\ UNCHANGED serverVars

\* ---------------------------------------------------------- specification
Next ==
    \/ AddSubscription(AddChoices)
    \/ Tick(TickSteps)
    \/ LatePriceDone
    \/ CheckStart(Snapshots)
    \/ PriceTaskDone
    \/ OrderSubmit
    \/ CollectOutcomes
    \/ NotifyConfig
    \/ Merge

Spec == Init /\ [][Next]_vars

\* the same monitor on narrower inputs: auto-order subscriptions of one
\* configuration (no flat entry, so no price thread outlives its join)
NextOrder ==
    \/ AddSubscription(OrderChoices)
    \/ Tick(TickSteps)
    \/ CheckStart(OrderSnapshots)
    \/ PriceTaskDone
    \/ OrderSubmit
    \/ CollectOutcomes
    \/ NotifyConfig
    \/ Merge

SpecOrder == Init /\ [][NextOrder]_vars

\* notify-only subscriptions, price lookups under every cache key
NextCache ==
    \/ AddSubscription(CacheChoices)
    \/ Tick(TickSteps)
    \/ LatePriceDone
    \/ CheckStart(CacheSnapshots)
    \/ PriceTaskDone
    \/ NotifyConfig
    \/ Merge

SpecCache == Init /\ [][NextCache]_vars

\* the price lookups of SpecCache, each price task taken step by step
NextRace ==
    \/ AddSubscription(CacheChoices)
    \/ Tick(TickSteps)
    \/ LatePriceDone
    \/ CheckStart(CacheSnapshots)
    \/ PriceTaskTest
    \/ PriceTaskRead
    \/ PriceTaskEvict
    \/ PriceTaskCall
    \/ NotifyConfig
    \/ Merge

SpecRace == Init /\ [][NextRace]_vars

\* notifications over a transport that delivers, fails or raises
NextSend ==
    \/ AddSubscription(SendChoices)
    \/ LatePriceDone
    \/ CheckStartSend(SendSnapshots, SendOutcomes)
    \/ PriceTaskDone
    \/ NotifyConfigSend(SendOutcomes)
    \/ CheckFailed
    \/ Merge

SpecSend == Init /\ [][NextSend]_vars

\* an auto-order subscription whose flags are updated between checks
NextFlag ==
    \/ Subscribe({PlanCode}, FlagChoices)
    \/ LatePriceDone
    \/ CheckStart(FlagSnapshots)
    \/ PriceTaskDone
    \/ OrderSubmit
    \/ CollectOutcomes
    \/ NotifyConfig
    \/ Merge

SpecFlag == Init /\ [][NextFlag]_vars

\* subscriptions notified of losses
NextDuration ==
    \/ AddSubscription(DurationChoices)
    \/ Tick(TickSteps)
    \/ LatePriceDone
    \/ CheckStart(DurationSnapshots)
    \/ PriceTaskDone
    \/ NotifyConfig
    \/ Merge

SpecDuration == Init /\ [][NextDuration]_vars

\* every flag combination on one snapshot of each shape
NextRepeat ==
    \/ AddSubscription(RepeatChoices)
    \/ Tick(TickSteps)
    \/ LatePriceDone
    \/ CheckStart(RepeatSnapshots)
    \/ PriceTaskDone
    \/ OrderSubmit
    \/ CollectOutcomes
    \/ NotifyConfig
    \/ Merge

SpecRepeat == Init /\ [][NextRepeat]_vars

\* the same monitor, restored with histories around the retention limit
NextHistory ==
    \/ AddSubscription(HistoryChoices)
    \/ Tick(TickSteps)
    \/ LatePriceDone
    \/ CheckStart(HistorySnapshots)
    \/ PriceTaskDone
    \/ OrderSubmit
    \/ CollectOutcomes
    \/ NotifyConfig
    \/ Merge

SpecHistory == Init /\ [][NextHistory]_vars

\* a snapshot source that fails between two answers
NextFetch ==
    \/ AddSubscription(FetchChoices)
    \/ Tick(TickSteps)
    \/ CheckStart(FetchSnapshots)
    \/ PriceTaskDone
    \/ OrderSubmit
    \/ CollectOutcomes
    \/ NotifyConfig
    \/ Merge

SpecFetch == Init /\ [][NextFetch]_vars

\* the store interface alone, called in any order
NextStore ==
    \/ Subscribe(PlanCodes, StoreChoices)
    \/ RemoveSubscription(PlanCodes)
    \/ ClearSubscriptions

SpecStore == Init /\ [][NextStore]_vars

\* the lifecycle: start(), stop() and the loop threads, next to a store of
\* up to two subscriptions
NextLoop ==
    \/ Subscribe(PlanCodes, LoopChoices)
    \/ Start
    \/ StopCall
    \/ StopReturn
    \/ \E t \in 1..MaxStarts : LoopStep(t)

SpecLoop == Init /\ [][NextLoop]_vars

\* the loop threads next to a store whose subscriptions come and go
NextDrop ==
    \/ Subscribe(PlanCodes, LoopChoices)
    \/ RemoveSubscription(PlanCodes)
    \/ ClearSubscriptions
    \/ Start
    \/ StopCall
    \/ StopReturn
    \/ \E t \in 1..MaxStarts : LoopStep(t)

SpecDrop == Init /\ [][NextDrop]_vars

\* the catalogue watch alone
NextNew == CheckNewServers(ServerLists)

SpecNew == Init /\ [][NextNew]_vars

\* the same with one subscription, every loop thread being scheduled again
\* and again and every check coming to its end
NextLoopFair ==
    \/ AddSubscription(LoopChoices)
    \/ Start
    \/ StopCall
    \/ StopReturn
    \/ \E t \in 1..MaxStarts : LoopStep(t)

SpecLoopFair ==
    /\ Init
    /\ [][NextLoopFair]_vars
    /\ \A t \in 1..MaxStarts : WF_vars(LoopStep(t))

\* tokens issued by grouped notifications and resolved later
NextToken ==
    \/ AddSubscription(TokenChoices)
    \/ Tick(TokenTickSteps)
    \/ CheckStart(TokenSnapshots)
    \/ PriceTaskDone
    \/ NotifyConfig
    \/ Merge
    \/ ResolveToken

SpecToken == Init /\ [][NextToken]_vars

\* subscriptions with a datacenter filter
NextScope ==
    \/ AddSubscription(ScopeChoices)
    \/ Tick(TickSteps)
    \/ LatePriceDone
    \/ CheckStart(ScopeSnapshots)
    \/ PriceTaskDone
    \/ OrderSubmit
    \/ CollectOutcomes
    \/ NotifyConfig
    \/ Merge

SpecScope == Init /\ [][NextScope]_vars

\* the same, add_subscription being called again between checks with
\* another filter and other flags
NextKeys ==
    \/ Subscribe({PlanCode}, ScopeChoices)
    \/ LatePriceDone
    \/ CheckStart(ScopeSnapshots)
    \/ PriceTaskDone
    \/ OrderSubmit
    \/ CollectOutcomes
    \/ NotifyConfig
    \/ Merge

SpecKeys == Init /\ [][NextKeys]_vars

\* the order pool worker by worker
NextPool ==
    \/ AddSubscription(PoolChoices)
    \/ CheckStart(PoolSnapshots)
    \/ PriceTaskDone
    \/ OrderSubmit
    \/ OrderWorkerStart
    \/ OrderWorkerDone
    \/ NotifyConfig
    \/ Merge

SpecPool == Init /\ [][NextPool]_vars

TypeOK ==
    /\ pc \in {"idle", "price", "process", "collect", "notify", "merge", "failed"}
    /\ Len(subscriptions) <= Cardinality(PlanCodes)

\* ================================================================ properties
\* vocabulary shared by the properties below
Checking == subscriptions # <<>> /\ pc # "idle"

\* status keys the snapshot of the check in progress reports, with their status
Observed == SnapshotStatus(current_availability)

\* status recorded for key k when the check in progress started
StatusAtStart(k) == Get(check_start.lastStatus, k)

KeyConfig(k) == IF Len(k) = 2 THEN k[2] ELSE None

OrderKey(o) == <<o.datacenter, o.config>>

\* notification n is about status key k
About(n, k) ==
    /\ n.config = KeyConfig(k)
    /\ \E j \in 1..Len(n.dcs) : n.dcs[j][1] = k[1]

Notified(k, change_type) ==
    \E i \in 1..Len(sent) : sent[i].change_type = change_type /\ About(sent[i], k)

Ordered(k) == \E i \in 1..Len(orders) : OrderKey(orders[i]) = k

\* history entries appended since the check in progress started
AppendedSince == SubSeq(history, Len(check_start.history) + 1, Len(history))

RECURSIVE NotifiedCount(_)
NotifiedCount(ns) == IF ns = <<>> THEN 0 ELSE Len(Head(ns).dcs) + NotifiedCount(Tail(ns))

C2_SiblingSuppressed ==
    (Checking /\ Sub.autoOrder) =>
        \A k \in DOMAIN Observed :
            (/\ Len(k) = 2
             /\ Observed[k] # Unavailable
             /\ \/ /\ StatusAtStart(k) = None
                   /\ \E k1 \in DOMAIN check_start.lastStatus :
                        /\ Len(k1) = 2 /\ k1 # k /\ k1[2] = k[2]
                        /\ check_start.lastStatus[k1] # Unavailable
                \/ StatusAtStart(k) \notin {None, Unavailable})
            => (~Ordered(k) /\ ~Notified(k, "available") /\ ~Notified(k, "unavailable"))

\* a check is about to merge after it met a first-seen available datacenter
\* whose sibling was already recorded available, with every notification on
C2_Witness ==
    /\ pc = "merge"
    /\ subscriptions # <<>>
    /\ Sub.autoOrder /\ Sub.notifyAvailable /\ Sub.datacenters = {}
    /\ \E k \in DOMAIN Observed :
        /\ Len(k) = 2
        /\ Observed[k] # Unavailable
        /\ StatusAtStart(k) = None
        /\ \E k1 \in DOMAIN check_start.lastStatus :
            Len(k1) = 2 /\ k1 # k /\ k1[2] = k[2] /\ check_start.lastStatus[k1] # Unavailable

C4_FirstSeenUnavailableSilent ==
    (Checking /\ ~Sub.notifyUnavailable) =>
        \A k \in DOMAIN Observed :
            (Observed[k] = Unavailable /\ StatusAtStart(k) = None) =>
                /\ ~Notified(k, "available")
                /\ ~Notified(k, "unavailable")
                /\ \A i \in 1..Len(AppendedSince) :
                      ~(/\ AppendedSince[i].datacenter = k[1]
                        /\ AppendedSince[i].config = KeyConfig(k))

\* ------------------------------------------------------------------------ C5
\* C5: for a key with a recorded prior status, the check notifies
\* "available" exactly on unavailable -> non-unavailable with notifyAvailable
\* on, and "unavailable" exactly on non-unavailable -> unavailable with
\* notifyUnavailable on; flat and composite keys alike.
C5_TransitionNotified ==
    (pc = "merge" /\ subscriptions # <<>>) =>
        \A k \in DOMAIN Observed :
            (StatusAtStart(k) # None /\ InScope(Sub, k[1])) =>
                /\ Notified(k, "available") <=>
                      (/\ StatusAtStart(k) = Unavailable
                       /\ Observed[k] # Unavailable
                       /\ Sub.notifyAvailable)
                /\ Notified(k, "unavailable") <=>
                      (/\ StatusAtStart(k) # Unavailable
                       /\ Observed[k] = Unavailable
                       /\ Sub.notifyUnavailable)

\* ------------------------------------------------------------------------ C6
\* C6: from the moment a batch is submitted, lastStatus holds the observed
\* status for every key of the batch, and every later step of the check,
\* whatever the requests' outcomes, leaves it there.
C6_PinnedAfterSubmit ==
    [][\A i \in 1..Len(orders) :
            /\ Get(lastStatus, OrderKey(orders[i])) = Observed[OrderKey(orders[i])]
            /\ Get(lastStatus', OrderKey(orders[i])) = Observed[OrderKey(orders[i])]]_vars

\* the outcomes of a batch are in, some failed and some raised
C6_Witness ==
    /\ pc = "notify"
    /\ orders # <<>>
    /\ order_outcomes = {"failed", "raised"}

\* ------------------------------------------------------------------------ C7
\* C7: valid_plan_codes never loses a member; and once the price service has
\* answered with a price for the plan code, a batch submission makes no
\* verification call and every request carries skipPriceCheck = TRUE.
C7_ValidSetPermanent ==
    [][/\ valid_plan_codes \subseteq valid_plan_codes'
       /\ (PlanCode \in priced_ok /\ Len(orders') > Len(orders)) =>
            /\ lookups' = lookups
            /\ \A i \in (Len(orders) + 1)..Len(orders') : orders'[i].skipPriceCheck]_vars

\* a batch submitted after the cached quote had expired and was evicted
C7_Witness ==
    /\ pc = "collect"
    /\ orders # <<>>
    /\ PlanCode \in priced_ok
    /\ price_cache = EmptyDict
    /\ now >= price_cache_ttl

\* ------------------------------------------------------------------------ C8
\* C8: no price lookup is made for a cache key whose entry is younger than
\* price_cache_ttl, and a price task reading such an entry returns its
\* quote and leaves the cache alone; a price task reading an entry aged
\* price_cache_ttl or more makes exactly one lookup for that key, and the
\* old entry is gone afterwards (evicted, or replaced by the fresh quote).
C8_CacheTtl ==
    [][LET new_lookups == IF pc = "idle" THEN lookups'
                          ELSE SubSeq(lookups', Len(lookups) + 1, Len(lookups'))
           task_key == <<PlanCode, sorted(ConfigInfo(closure.config_info).options)>>
           task_done == pc = "price" /\ price_query_tasks' # price_query_tasks
       IN /\ \A i \in 1..Len(new_lookups) :
                LET key == <<PlanCode, sorted(new_lookups[i].options)>> IN
                (new_lookups[i].api = "price" /\ key \in DOMAIN price_cache) =>
                    now - price_cache[key].timestamp >= price_cache_ttl
          /\ (task_done /\ task_key \in DOMAIN price_cache) =>
                IF now - price_cache[task_key].timestamp < price_cache_ttl
                THEN /\ lookups' = lookups
                     /\ price_cache' = price_cache
                     /\ \A c \in price_query_tasks \ price_query_tasks' :
                            config_results'[c].price_text = price_cache[task_key].price
                ELSE /\ Len(lookups') = Len(lookups) + 1
                     /\ sorted(lookups'[Len(lookups')].options) = task_key[2]
                     /\ \/ task_key \notin DOMAIN price_cache'
                        \/ price_cache'[task_key].timestamp = now
    ]_vars

\* a price task is about to read an entry that is exactly price_cache_ttl old
C8_Witness ==
    /\ pc = "price"
    /\ <<PlanCode, sorted(ConfigInfo(closure.config_info).options)>> \in DOMAIN price_cache
    /\ now - price_cache[<<PlanCode, sorted(ConfigInfo(closure.config_info).options)>>].timestamp
          = price_cache_ttl

\* ------------------------------------------------------------------------ C9
\* C9 as stated: after every check that got a snapshot, whatever history the
\* subscription was restored with, the history holds at most HistoryLimit
\* entries.
C9_AlwaysBounded ==
    (pc = "idle" /\ subscriptions # <<>> /\ prev_snapshot # EmptySnapshot) =>
        Len(history) <= HistoryLimit

\* C9, amended: a check that starts with at most HistoryLimit entries ends
\* with the last min(HistoryLimit, old + appended) entries of the old history
\* followed by the appended ones: oldest dropped first, order kept.
C9_BoundedFromBounded ==
    (pc = "merge" /\ Len(check_start.history) <= HistoryLimit) =>
        LET old == check_start.history
            appended == NotifiedCount(sent)
            kept == Len(history) - appended
        IN /\ Len(history) <= HistoryLimit
           /\ Len(history) = IF Len(old) + appended > HistoryLimit THEN HistoryLimit
                             ELSE Len(old) + appended
           /\ kept >= 0
           /\ SubSeq(history, 1, kept) = SubSeq(old, Len(old) - kept + 1, Len(old))
           /\ \A i \in (kept + 1)..Len(history) : history[i].timestamp = now

\* a check appended to a full history: the oldest persisted entry is gone
C9_Witness ==
    /\ pc = "merge"
    /\ Len(check_start.history) = HistoryLimit
    /\ Len(history) = HistoryLimit
    /\ history[1] # check_start.history[1]
    /\ history[HistoryLimit].timestamp = now

\* ----------------------------------------------------------------------- C10
\* the history entry the duration of an unavailable notification for
\* datacenter dc and configuration cfg is measured from, under a given test
LastEntry(h, Test(_)) ==
    LET hits == {i \in 1..Len(h) : Test(h[i])}
    IN IF hits = {} THEN 0 ELSE CHOOSE i \in hits : \A j \in hits : j <= i

\* the test as the claim words it: available, same datacenter, same display
SameDisplay(entry, dc, cfg) ==
    /\ entry.changeType = "available"
    /\ entry.datacenter = dc
    /\ (cfg # None => (entry.config # None /\ EntryDisplay(entry) = ConfigInfo(cfg).display))

\* the test with entries that carry no configuration descriptor let through
SameDisplayOrBare(entry, dc, cfg) ==
    /\ entry.changeType = "available"
    /\ entry.datacenter = dc
    /\ (cfg # None => (entry.config = None \/ EntryDisplay(entry) = ConfigInfo(cfg).display))

\* every unavailable notification sent by the step carries either no
\* duration or the time elapsed since the last entry passing the test
DurationsFrom(Test(_, _, _)) ==
    LET first_new == IF pc = "idle" THEN 1 ELSE Len(sent) + 1 IN
    \A i \in first_new..Len(sent') :
        LET n == sent'[i]
            at == LastEntry(history, LAMBDA e : Test(e, n.dcs[1][1], n.config))
        IN (n.change_type = "unavailable" /\ n.duration # <<>>) =>
              /\ at > 0
              /\ n.duration = FormatDuration(now - history[at].timestamp)

\* C10 as stated: the duration is measured from the most recent entry with
\* changeType "available", the same datacenter and the same configuration
\* display.
C10_DurationSameDisplay == [][DurationsFrom(SameDisplay)]_vars

\* C10, amended: the duration is measured from the most recent entry with
\* changeType "available", the same datacenter, and either the same
\* configuration display or no configuration descriptor at all.
C10_DurationSameDisplayOrBare == [][DurationsFrom(SameDisplayOrBare)]_vars

\* an unavailable notification of a configuration went out with a duration,
\* the history holding newer entries of another datacenter and configuration
C10_Witness ==
    /\ subscriptions # <<>>
    /\ Len(check_start.history) >= 4
    /\ \E i \in 1..Len(sent) :
        /\ sent[i].change_type = "unavailable"
        /\ sent[i].config # None
        /\ sent[i].duration # <<>>
        /\ \E j \in 1..Len(check_start.history) :
            /\ check_start.history[j].datacenter # sent[i].dcs[1][1]
            /\ now - check_start.history[j].timestamp < sent[i].duration[Len(sent[i].duration)]

\* ----------------------------------------------------------------------- C11
\* history entries appended by the check in progress for status key k
EntriesFor(k) ==
    SelectSeq(AppendedSince, LAMBDA e : e.datacenter = k[1] /\ e.config = KeyConfig(k))

\* notifications of the check in progress that announce key k as available
AvailableAlertsFor(k) ==
    {i \in 1..Len(sent) : sent[i].change_type = "available" /\ About(sent[i], k)}

\* C11: when a check reaches its merge it has appended exactly one history
\* entry per notification intent it emitted, carrying the datacenter, the
\* observed status, the change type and the prior status, and none for a key
\* it did not notify; and a key first seen "available" under notifyAvailable
\* without auto-order got one notification (grouped, for a composite key) and
\* one entry, and the merge records it "available".
C11_NotifiedRecordedOnce ==
    (pc = "merge" /\ subscriptions # <<>>) =>
        /\ Len(AppendedSince) = NotifiedCount(sent)
        /\ \A k \in DOMAIN Observed :
              /\ Len(EntriesFor(k)) =
                    (IF Notified(k, "available") \/ Notified(k, "unavailable") THEN 1 ELSE 0)
              /\ \A i \in 1..Len(EntriesFor(k)) :
                    /\ EntriesFor(k)[i].status = Observed[k]
                    /\ EntriesFor(k)[i].oldStatus = StatusAtStart(k)
                    /\ Notified(k, EntriesFor(k)[i].changeType)
              /\ (/\ Observed[k] = "available"
                  /\ StatusAtStart(k) = None
                  /\ InScope(Sub, k[1])
                  /\ Sub.notifyAvailable
                  /\ ~Sub.autoOrder)
                 => /\ Cardinality(AvailableAlertsFor(k)) = 1
                    /\ \A i \in AvailableAlertsFor(k) : Len(k) = 2 => sent[i].kind = "grouped"
                    /\ Len(EntriesFor(k)) = 1
                    /\ Get(MergeStatus(lastStatus, current_availability), k) = "available"

\* ----------------------------------------------------------------------- C12
\* the step is a call of operation op of the store or lifecycle interface
CallStep(op) == last_call' # last_call /\ last_call'.op = op

\* positions of the subscriptions of plan code p in store subs
Holding(subs, p) == {i \in 1..Len(subs) : subs[i].planCode = p}

\* C12: add_subscription for a plan code already in the store writes the
\* datacenter filter, the two notify flags, the auto-order flag and quantity
\* and the display name from the call, keeps the lastStatus and history the
\* subscription had (whatever last_status and history the call passes), and
\* changes no other subscription.
C12_UpdateKeepsState ==
    [][(CallStep("add_subscription") /\ Holding(subscriptions, last_call'.plan_code) # {}) =>
          /\ Len(subscriptions') = Len(subscriptions)
          /\ \A i \in 1..Len(subscriptions) :
                IF i \in Holding(subscriptions, last_call'.plan_code)
                THEN /\ subscriptions'[i].planCode = subscriptions[i].planCode
                     /\ subscriptions'[i].datacenters = last_call'.args.datacenters
                     /\ subscriptions'[i].notifyAvailable = last_call'.args.notify_available
                     /\ subscriptions'[i].notifyUnavailable = last_call'.args.notify_unavailable
                     /\ subscriptions'[i].autoOrder = last_call'.args.auto_order
                     /\ subscriptions'[i].autoOrderQuantity = last_call'.args.auto_order_quantity
                     /\ subscriptions'[i].serverName = last_call'.args.server_name
                     /\ subscriptions'[i].lastStatus = subscriptions[i].lastStatus
                     /\ subscriptions'[i].history = subscriptions[i].history
                ELSE subscriptions'[i] = subscriptions[i]]_vars

\* a subscription restored with statuses and history was just reconfigured by
\* a call that passed an empty lastStatus and history and a new name, next to
\* a subscription of another plan code
C12_Witness ==
    /\ Len(subscriptions) = 2
    /\ last_call.op = "add_subscription"
    /\ \E i \in Holding(subscriptions, last_call.plan_code) :
          /\ subscriptions[i].lastStatus = RestoredStatus
          /\ subscriptions[i].history = RestoredHistory
          /\ last_call.args.last_status = EmptyDict
          /\ last_call.args.history = <<>>
          /\ subscriptions[i].serverName = "KS-A"
          /\ subscriptions[i].datacenters = {"gra"}

\* ----------------------------------------------------------------------- C13
\* C13: whatever calls of add_subscription, remove_subscription and
\* clear_subscriptions are made, no two subscriptions of the store have the
\* same plan code; remove_subscription returns True exactly when the store
\* held a subscription of that plan code, and clear_subscriptions returns the
\* number of subscriptions it removed.
C13_UniquePlanCodes ==
    [][/\ \A i, j \in 1..Len(subscriptions') :
             subscriptions'[i].planCode = subscriptions'[j].planCode => i = j
       /\ CallStep("remove_subscription") =>
             /\ last_call'.ret = ReprBool(Holding(subscriptions, last_call'.plan_code) # {})
             /\ Holding(subscriptions', last_call'.plan_code) = {}
       /\ CallStep("clear_subscriptions") =>
             /\ last_call'.ret = ReprInt(Len(subscriptions))
             /\ subscriptions' = <<>>]_vars

\* the store holds two subscriptions after add_subscription was called for a
\* plan code it already held (the call passed statuses the subscription does
\* not have): the call added no second subscription of that plan code
C13_Witness ==
    /\ Len(subscriptions) = 2
    /\ last_call.op = "add_subscription"
    /\ subscriptions[2].planCode = PlanCode
    /\ subscriptions[1].planCode # PlanCode
    /\ subscriptions[2].lastStatus = EmptyDict
    /\ last_call.plan_code = PlanCode
    /\ last_call.args.last_status = RestoredStatus

\* ----------------------------------------------------------------------- C14
\* the availability group the check in progress classified for configuration c
ClassifiedGroup(c) ==
    AvailableOf(NotificationsToSend(Sub, check_start.lastStatus, c,
                                    current_availability.configs[c]))

\* grouped notifications the check in progress sent for configuration c
GroupedAlertsFor(c) == {i \in 1..Len(sent) : sent[i].kind = "grouped" /\ sent[i].config = c}

\* C14: when a check reaches its merge, every configuration for which it
\* classified a non-empty "available" group got exactly one grouped
\* notification, listing the datacenters of the group, whatever became of
\* the price lookup (quote, failure, exception or no result).
C14_AbsentPriceNeverBlocks ==
    (pc = "merge" /\ subscriptions # <<>>) =>
        \A c \in DOMAIN current_availability.configs :
            ClassifiedGroup(c) # <<>> =>
                /\ Cardinality(GroupedAlertsFor(c)) = 1
                /\ \A i \in GroupedAlertsFor(c) : sent[i].dcs = GroupDcs(ClassifiedGroup(c))

\* ----------------------------------------------------------------------- C15
\* C15: a check whose snapshot source returns None or an empty mapping, or
\* raises, leaves the subscription (lastStatus, history and all) as it was,
\* sends no notification, submits no order and leaves the price cache, the
\* set of valid plan codes and the token cache untouched.
C15_NoSnapshotNoEffect ==
    [][(nchecks' = nchecks + 1 /\ fetched' \in {"None", "empty", "raise"}) =>
          /\ subscriptions' = subscriptions
          /\ sent' = <<>>
          /\ orders' = <<>>
          /\ inflight' = {}
          /\ price_cache' = price_cache
          /\ valid_plan_codes' = valid_plan_codes
          /\ message_uuid_cache' = message_uuid_cache]_vars

\* the snapshot source has just raised for an auto-order subscription whose
\* previous check recorded a status, appended history, cached a price and
\* issued a token
C15_Witness ==
    /\ fetched = "raise"
    /\ pc = "idle"
    /\ nchecks = 2
    /\ subscriptions # <<>>
    /\ Sub.autoOrder
    /\ Get(lastStatus, <<"gra", "cfgA">>) = "available"
    /\ history # <<>>
    /\ price_cache # EmptyDict
    /\ message_uuid_cache # EmptyDict

\* ----------------------------------------------------------------------- C16
\* threads that have not left monitor_loop
LiveThreads == {t \in DOMAIN loops : loops[t].at # "done"}

\* C16: start() on a stopped monitor sets running, creates one thread at the
\* head of monitor_loop and returns True; start() on a running monitor
\* returns False and changes nothing; stop() on a running monitor clears
\* running, touches no thread and returns True (at once or when its join
\* ends); stop() on a stopped monitor returns False and changes nothing.
C16_TwoStateMachine ==
    [][/\ (CallStep("start") /\ ~running) =>
             /\ running'
             /\ last_call'.ret = "True"
             /\ thread' \notin DOMAIN loops
             /\ DOMAIN loops' = DOMAIN loops \cup {thread'}
             /\ loops'[thread'].at = "while"
             /\ \A t \in DOMAIN loops : loops'[t] = loops[t]
       /\ (CallStep("start") /\ running) =>
             /\ last_call'.ret = "False"
             /\ UNCHANGED <<running, thread, loops>>
       /\ (running /\ ~running') =>
             /\ joining' \/ (CallStep("stop") /\ last_call'.ret = "True")
             /\ UNCHANGED <<thread, loops>>
       /\ (joining /\ ~joining') =>
             /\ last_call'.op = "stop"
             /\ last_call'.ret = "True"
             /\ UNCHANGED <<running, thread, loops>>
       /\ (CallStep("stop") /\ ~running /\ ~joining) =>
             /\ last_call'.ret = "False"
             /\ UNCHANGED <<running, thread, loops>>]_vars

\* stop() has just returned False: the monitor was started, stopped, and its
\* thread has left the loop
C16_Witness ==
    /\ last_call.op = "stop"
    /\ last_call.ret = "False"
    /\ ~running
    /\ DOMAIN loops = {1}
    /\ loops[1].at = "done"

\* ----------------------------------------------------------------------- C17
\* C17: once running is cleared, and unless start() sets it again, every loop
\* thread leaves monitor_loop, wherever stop() found it (in the iteration
\* over the subscriptions, inside a check, or in the chunked wait); and the
\* step that clears running moves no thread: a check in flight goes on to
\* its end.
C17_LoopExitsAfterStop ==
    /\ (~running) ~> (running \/ LiveThreads = {})
    /\ [][(running /\ ~running') => loops' = loops]_vars

\* stop() has returned True and the thread start() had created has left the
\* loop
C17_Witness ==
    /\ ~running
    /\ last_call.op = "stop"
    /\ last_call.ret = "True"
    /\ joining = FALSE
    /\ DOMAIN loops = {1}
    /\ loops[1].at = "done"

\* ----------------------------------------------------------------------- C18
\* C18: whatever start() and stop() calls are made, at most one thread is
\* inside monitor_loop, and so at most one check is in flight.
C18_SingleLoopThread ==
    /\ Cardinality(LiveThreads) <= 1
    /\ Cardinality({t \in DOMAIN loops : loops[t].at = "check"}) <= 1

\* ----------------------------------------------------------------------- C19
\* C19: what is raised inside a check does not leave
\* check_availability_change: the thread goes on with the pause, then with
\* the next subscription of the cycle, and a thread leaves monitor_loop only
\* when running is cleared.
C19_CaughtAtBoundary ==
    [][\A t \in DOMAIN loops :
          /\ (loops[t].at = "check" /\ loops'[t] # loops[t] /\ loops'[t].outcome = "raised") =>
                /\ loops'[t].at = "pause"
                /\ loops'[t].i = loops[t].i
          /\ (loops[t].at = "pause" /\ loops'[t] # loops[t]) =>
                /\ loops'[t].at = "for"
                /\ loops'[t].i = loops[t].i + 1
          /\ (loops[t].at = "for" /\ loops'[t] # loops[t] /\ running
              /\ loops[t].i <= Len(subscriptions)) =>
                /\ loops'[t].at = "check"
                /\ loops'[t].i = loops[t].i
          /\ (loops[t].at # "done" /\ loops'[t].at = "done") => ~running]_vars

\* a thread is checking its second subscription after the check of the first
\* one raised
C19_Witness ==
    \E t \in DOMAIN loops :
        /\ loops[t].at = "check"
        /\ loops[t].i = 2
        /\ loops[t].outcome = "raised"
        /\ running

\* ----------------------------------------------------------------------- C20
\* the step is a token resolution: it writes last_call and nothing else
ResolveStep ==
    /\ last_call'.op = "resolve_token"
    /\ UNCHANGED <<nonLoopVars, loopVars, localVars, logVars>>

\* C20: a token enters the cache with its creation time and the full order
\* descriptor of its button, and no entry is altered afterwards; a token
\* younger than 24 hours resolves to exactly that descriptor; a token older
\* than 24 hours, or never issued, resolves to an error; and no resolution
\* yields anything but an error or the descriptor stored under the token.
C20_TokensFailClosed ==
    [][/\ \A k \in DOMAIN message_uuid_cache' \ DOMAIN message_uuid_cache :
             /\ message_uuid_cache'[k].timestamp = now
             /\ message_uuid_cache'[k].planCode = PlanCode
             /\ message_uuid_cache'[k].datacenter \in DCs
             /\ message_uuid_cache'[k].configInfo \in Configs
             /\ message_uuid_cache'[k].options =
                   ConfigInfo(message_uuid_cache'[k].configInfo).options
       /\ \A k \in DOMAIN message_uuid_cache :
             /\ k \in DOMAIN message_uuid_cache'
             /\ message_uuid_cache'[k] = message_uuid_cache[k]
       /\ ResolveStep =>
             LET k == last_call'.args.token
                 r == last_call'.ret
                 issued == k \in DOMAIN message_uuid_cache
             IN /\ (issued /\ now - message_uuid_cache[k].timestamp < message_uuid_cache_ttl)
                      => r = <<message_uuid_cache[k]>>
                /\ (issued /\ now - message_uuid_cache[k].timestamp > message_uuid_cache_ttl)
                      => r = <<>>
                /\ ~issued => r = <<>>
                /\ r # <<>> => (issued /\ r = <<message_uuid_cache[k]>>)]_vars

\* a token issued more than 24 hours ago has just been resolved to an error
\* while its entry is still in the cache
C20_Witness ==
    /\ last_call.op = "resolve_token"
    /\ last_call.ret = <<>>
    /\ last_call.args.token \in DOMAIN message_uuid_cache
    /\ now - message_uuid_cache[last_call.args.token].timestamp = message_uuid_cache_ttl + 1
    /\ Cardinality(DOMAIN message_uuid_cache) = 2

\* ----------------------------------------------------------------------- C21
\* datacenters the notifications ns, the order requests os, the history
\* entries es and the token entries ts are about
TouchedDcs(ns, os, es, ts) ==
    UNION {{ns[i].dcs[j][1] : j \in 1..Len(ns[i].dcs)} : i \in 1..Len(ns)}
    \cup {os[i].datacenter : i \in 1..Len(os)}
    \cup {es[i].datacenter : i \in 1..Len(es)}
    \cup {ts[k].datacenter : k \in DOMAIN ts}

\* C21: under a non-empty datacenter list, whatever a step of a check sends,
\* orders, appends to the history or stores as a token is about a datacenter
\* of the list; under an empty list the check that starts leaves no
\* datacenter of the snapshot out: every flat key whose transition
\* classifies is notified, and the notification list of every configuration
\* holds every datacenter whose transition classifies and that the
\* duplicate-trigger guard lets through.
C21_FilterIsScope ==
    [][(subscriptions # <<>> /\ subscriptions' # <<>>) =>
          /\ Sub.datacenters # {} =>
                TouchedDcs(sent', orders',
                           SubSeq(history', Len(history) + 1, Len(history')),
                           [k \in DOMAIN message_uuid_cache' \ DOMAIN message_uuid_cache |->
                                message_uuid_cache'[k]])
                   \subseteq Sub.datacenters
          /\ (Sub.datacenters = {} /\ pc = "idle" /\ pc' # "idle") =>
                /\ \A dc \in DOMAIN current_availability'.flat :
                      ClassifyFlat(Sub, Get(lastStatus, <<dc>>), current_availability'.flat[dc]) # None
                         => \E i \in 1..Len(sent') : sent'[i].config = None /\ sent'[i].dcs[1][1] = dc
                /\ \A c \in DOMAIN config_results' :
                      {config_results'[c].notifications_to_send[i].dc :
                          i \in 1..Len(config_results'[c].notifications_to_send)}
                      = {dc \in DOMAIN current_availability'.configs[c] :
                            /\ ClassifyConfig(Sub, Get(lastStatus, <<dc, c>>),
                                              current_availability'.configs[c][dc]) # None
                            /\ ~GuardSkips(Sub, lastStatus, <<dc, c>>, c, Get(lastStatus, <<dc, c>>),
                                           current_availability'.configs[c][dc])}]_vars

\* an auto-order subscription filtered on one datacenter has ordered,
\* notified and issued a token for it out of a snapshot that reports a
\* second datacenter of the same configuration available too
C21_Witness ==
    /\ pc = "merge"
    /\ subscriptions # <<>>
    /\ Sub.datacenters = {"gra"}
    /\ Sub.autoOrder
    /\ DOMAIN Observed = {<<"gra", "cfgA">>, <<"rbx", "cfgA">>}
    /\ Observed[<<"rbx", "cfgA">>] = "available"
    /\ StatusAtStart(<<"rbx", "cfgA">>) = Unavailable
    /\ orders # <<>>
    /\ sent # <<>>
    /\ message_uuid_cache # EmptyDict

\* ----------------------------------------------------------------------- C22
\* C22: every order request of the check in progress is on a subscription
\* with auto-order on, for a composite key the snapshot reports with a
\* status other than "unavailable", whose transition classifies "available"
\* and which the check holds in the notification list of its configuration
\* with that change type; so none is for a key classified "unavailable" or
\* left unclassified.
C22_OrdersOnlyForAvailable ==
    \A i \in 1..Len(orders) :
        LET k == OrderKey(orders[i]) IN
        /\ Sub.autoOrder
        /\ k \in DOMAIN Observed
        /\ Observed[k] # Unavailable
        /\ ClassifyConfig(Sub, StatusAtStart(k), Observed[k]) = "available"
        /\ k[2] \in DOMAIN config_results
        /\ \E j \in 1..Len(config_results[k[2]].notifications_to_send) :
              LET n == config_results[k[2]].notifications_to_send[j]
              IN n.status_key = k /\ n.change_type = "available" /\ n.status = Observed[k]

\* a batch was submitted for a datacenter the snapshot reports "low", on a
\* subscription that notifies losses too
C22_Witness ==
    /\ pc = "collect"
    /\ Sub.autoOrder
    /\ Sub.notifyUnavailable
    /\ orders # <<>>
    /\ Observed[OrderKey(orders[1])] = "low"

\* ----------------------------------------------------------------------- C23
\* C23: when the order flow takes up the availability group of a
\* configuration, it makes no call to the price service if the plan code is
\* in valid_plan_codes, and otherwise exactly one verification call, for the
\* first datacenter of the group and the options of the configuration,
\* however many datacenters the group has and whatever the order quantity;
\* the plan code enters valid_plan_codes exactly when that call succeeds.
C23_OneVerification ==
    [][(pc = "process" /\ NeedsOrder /\ pc' # pc) =>
          LET c == Head(todo)
              group == AvailableOf(config_results[c].notifications_to_send)
              calls == SubSeq(lookups', Len(lookups) + 1, Len(lookups'))
          IN IF PlanCode \in valid_plan_codes
             THEN /\ calls = <<>>
                  /\ valid_plan_codes' = valid_plan_codes
             ELSE /\ Len(calls) = 1
                  /\ calls[1].api = "verify"
                  /\ calls[1].dc = group[1].dc
                  /\ calls[1].options = ConfigInfo(c).options
                  /\ valid_plan_codes' = IF calls[1].priced THEN valid_plan_codes \cup {PlanCode}
                                         ELSE valid_plan_codes]_vars

\* one verification call, for the first datacenter, came before a batch of
\* four requests (two datacenters, quantity two) and made the plan code valid
C23_Witness ==
    /\ pc = "collect"
    /\ Len(orders) = 4
    /\ orders[1].datacenter # orders[4].datacenter
    /\ lookups # <<>>
    /\ lookups[Len(lookups)].api = "verify"
    /\ lookups[Len(lookups)].dc = orders[1].datacenter
    /\ Cardinality({i \in 1..Len(lookups) : lookups[i].api = "verify"}) = 1
    /\ PlanCode \in valid_plan_codes

\* ----------------------------------------------------------------------- C24
\* C24: when the verification call of the order flow does not come back with
\* a price, whatever the way it fails, the flow still submits the whole
\* batch of the group (every datacenter, order_count times each), and every
\* request of it carries skipPriceCheck = FALSE.
C24_FailedVerificationStillOrders ==
    [][(/\ pc = "process"
        /\ NeedsOrder
        /\ pc' # pc
        /\ Len(lookups') = Len(lookups) + 1
        /\ ~lookups'[Len(lookups')].priced) =>
          LET group == AvailableOf(config_results[Head(todo)].notifications_to_send)
              batch == SubSeq(orders', Len(orders) + 1, Len(orders'))
          IN /\ Len(batch) = Len(group) * order_count(Sub)
             /\ \A j \in 1..Len(group) :
                   Cardinality({k \in 1..Len(batch) : batch[k].datacenter = group[j].dc})
                      = order_count(Sub)
             /\ \A k \in 1..Len(batch) : ~batch[k].skipPriceCheck]_vars

\* ----------------------------------------------------------------------- C25
\* C25: the order flow of a group of n datacenters on a subscription of
\* quantity q submits exactly n * max(q, 1) requests, max(q, 1) for each
\* datacenter of the group, all with the same skipPriceCheck and with
\* skipDuplicateCheck true exactly when q > 0; at no time are more than 10
\* of them being executed; and a request leaves the pool only by being
\* executed, one at a time, whatever the outcome of the others, the flow
\* going on only when none is left.
C25_BatchShape ==
    [][/\ (pc = "process" /\ NeedsOrder /\ pc' # pc) =>
             LET group == AvailableOf(config_results[Head(todo)].notifications_to_send)
                 q == Sub.autoOrderQuantity
                 each == IF q > 1 THEN q ELSE 1
                 batch == SubSeq(orders', Len(orders) + 1, Len(orders'))
             IN /\ Len(batch) = Len(group) * each
                /\ \A j \in 1..Len(group) :
                      Cardinality({k \in 1..Len(batch) : batch[k].datacenter = group[j].dc}) = each
                /\ \A k \in 1..Len(batch) :
                      /\ batch[k].skipPriceCheck = batch[1].skipPriceCheck
                      /\ batch[k].skipDuplicateCheck = (q > 0)
                /\ inflight' = {Len(orders) + k : k \in 1..Len(batch)}
       /\ Cardinality(working') <= 10
       /\ working' \subseteq inflight'
       /\ (pc = "collect" /\ inflight' # inflight) =>
             /\ inflight' \subseteq inflight
             /\ Cardinality(inflight \ inflight') = 1
             /\ inflight \ inflight' \subseteq working
       /\ (pc = "collect" /\ pc' # "collect") => inflight' = {}]_vars

\* ten requests of a batch of twelve are being executed, two wait in the
\* queue, and the batch has already had a failure and an exception
C25_Witness ==
    /\ pc = "collect"
    /\ Len(orders) = 12
    /\ Cardinality(working) = 10
    /\ Cardinality(inflight) = 10
    /\ order_outcomes = {"failed", "raised"}

\* ----------------------------------------------------------------------- C26
\* C26: the merge that ends a check leaves in lastStatus the status of the
\* snapshot for every status key of the snapshot, notified or not, inside
\* the datacenter filter or not, and for every other key the value it had
\* when the check started, and these keys are all the keys it leaves; and
\* no step of a check removes a key from lastStatus.
C26_MergeNotReplace ==
    [][(subscriptions # <<>> /\ subscriptions' # <<>>) =>
          /\ DOMAIN lastStatus \subseteq DOMAIN lastStatus'
          /\ (pc = "merge" /\ pc' = "idle") =>
                /\ DOMAIN lastStatus' = DOMAIN check_start.lastStatus \cup DOMAIN Observed
                /\ \A k \in DOMAIN Observed : lastStatus'[k] = Observed[k]
                /\ \A k \in DOMAIN check_start.lastStatus \ DOMAIN Observed :
                      lastStatus'[k] = check_start.lastStatus[k]]_vars

\* a subscription filtered on gra has ended a check whose snapshot reported
\* rbx alone: the merge recorded rbx next to the status of an earlier check
C26_Witness ==
    /\ pc = "idle"
    /\ nchecks = 2
    /\ subscriptions # <<>>
    /\ Sub.datacenters = {"gra"}
    /\ DOMAIN SnapshotStatus(prev_snapshot) = {<<"rbx", "cfgA">>}
    /\ DOMAIN lastStatus = {<<"gra">>, <<"rbx", "cfgA">>}
    /\ lastStatus[<<"rbx", "cfgA">>] = "low"
    /\ history = <<>> \/ \A i \in 1..Len(history) : history[i].datacenter = "gra"

\* ----------------------------------------------------------------------- C27
\* the loss group the check in progress classified for configuration c
\* (ClassifiedGroup(c) is its availability group)
ClassifiedLosses(c) ==
    UnavailableOf(NotificationsToSend(Sub, check_start.lastStatus, c,
                                      current_availability.configs[c]))

\* C27: when a check reaches its merge it has sent, for every configuration
\* of the snapshot, exactly one grouped message if its availability group is
\* not empty, listing the datacenters of the group, and exactly one single
\* message for each datacenter of its loss group; the step that notifies a
\* configuration adds to the token cache exactly one entry per datacenter of
\* the availability group, holding the plan code, that datacenter and the
\* option codes of the configuration, and none for a loss; and no step
\* alters or removes an entry the token cache already holds.
C27_GroupedNotification ==
    [][/\ (pc = "merge" /\ subscriptions # <<>>) =>
             \A c \in DOMAIN current_availability.configs :
                /\ Cardinality(GroupedAlertsFor(c)) = (IF ClassifiedGroup(c) # <<>> THEN 1 ELSE 0)
                /\ \A i \in GroupedAlertsFor(c) : sent[i].dcs = GroupDcs(ClassifiedGroup(c))
                /\ \A j \in 1..Len(ClassifiedLosses(c)) :
                      Cardinality({i \in 1..Len(sent) :
                                      /\ sent[i].kind = "single"
                                      /\ sent[i].config = c
                                      /\ sent[i].change_type = "unavailable"
                                      /\ sent[i].dcs = <<<<ClassifiedLosses(c)[j].dc,
                                                          ClassifiedLosses(c)[j].status>>>>}) = 1
                /\ Cardinality({i \in 1..Len(sent) : sent[i].kind = "single" /\ sent[i].config = c})
                      = Len(ClassifiedLosses(c))
       /\ \A k \in DOMAIN message_uuid_cache :
             k \in DOMAIN message_uuid_cache' /\ message_uuid_cache'[k] = message_uuid_cache[k]
       /\ LET new == DOMAIN message_uuid_cache' \ DOMAIN message_uuid_cache
              notifying == pc \in {"process", "notify"} /\ todo # <<>> /\ todo' = Tail(todo)
          IN IF notifying
             THEN LET group == AvailableOf(config_results[Head(todo)].notifications_to_send)
                  IN /\ Cardinality(new) = Len(group)
                     /\ \A j \in 1..Len(group) :
                           Cardinality({k \in new :
                                           /\ message_uuid_cache'[k].planCode = PlanCode
                                           /\ message_uuid_cache'[k].datacenter = group[j].dc
                                           /\ message_uuid_cache'[k].options
                                                 = ConfigInfo(Head(todo)).options}) = 1
             ELSE new = {}]_vars

\* ----------------------------------------------------------------------- C28
\* a price task of the pool has run _get_price_info without finding a fresh
\* entry: it made exactly one call to the price service, for the options it
\* resolved; a priced answer is in the cache afterwards under the plan code
\* and the sorted option codes, with the time of the call, the plan code is
\* in valid_plan_codes and the quote is the result of the task; any other
\* answer leaves the result of the task absent and valid_plan_codes as it
\* was, and the cache as after_failure(cache, key) describes
PriceResolution(after_failure(_, _)) ==
    (pc = "price" /\ price_query_tasks' # price_query_tasks) =>
        LET options == ConfigInfo(closure.config_info).options
            key == <<PlanCode, sorted(options)>>
            fresh == key \in DOMAIN price_cache
                     /\ now - price_cache[key].timestamp < price_cache_ttl
            calls == SubSeq(lookups', Len(lookups) + 1, Len(lookups'))
        IN ~fresh =>
              /\ Len(calls) = 1
              /\ calls[1].api = "price"
              /\ calls[1].options = options
              /\ IF calls[1].priced
                 THEN /\ DOMAIN price_cache' = DOMAIN price_cache \cup {key}
                      /\ price_cache'[key] = [price |-> Quote(options), timestamp |-> now]
                      /\ \A k \in DOMAIN price_cache \ {key} : price_cache'[k] = price_cache[k]
                      /\ valid_plan_codes' = valid_plan_codes \cup {PlanCode}
                      /\ \A c \in price_query_tasks \ price_query_tasks' :
                            config_results'[c].price_text = Quote(options)
                 ELSE /\ price_cache' = after_failure(price_cache, key)
                      /\ valid_plan_codes' = valid_plan_codes
                      /\ \A c \in price_query_tasks \ price_query_tasks' :
                            config_results'[c].price_text = 0

\* C28 as stated: on a miss _get_price_info makes one lookup; a priced quote
\* is cached under (plan code, sorted option codes) and the plan code made
\* valid; when the lookup fails or raises the result is absent and neither
\* the price cache nor valid_plan_codes changes.
C28_FailureLeavesCache == [][PriceResolution(LAMBDA cache, key : cache)]_vars

\* C28, amended: the same, except that when the lookup fails or raises the
\* price cache is as it was less the expired entry of the key, if it had one
\* (the read that found it expired has evicted it); it gains no entry.
C28_FailureOnlyEvicts ==
    [][PriceResolution(LAMBDA cache, key : [k \in DOMAIN cache \ {key} |-> cache[k]])]_vars

\* a task found the only entry of the cache expired and its lookup failed:
\* the cache is empty, the plan code still valid, the task without price
C28_Witness ==
    /\ pc = "process"
    /\ nchecks = 2
    /\ now = price_cache_ttl
    /\ price_cache = EmptyDict
    /\ PlanCode \in valid_plan_codes
    /\ Len(lookups) = 1
    /\ lookups[1].api = "price"
    /\ ~lookups[1].priced
    /\ \A c \in DOMAIN config_results : config_results[c].price_text = 0

\* ----------------------------------------------------------------------- C29
\* price tasks of the pool that have found the key missing and have not yet
\* finished their call to the price service, and tasks about to delete the
\* entry they found expired
Missing == {c \in DOMAIN probing : probing[c] = "call"}

Evicting == {c \in DOMAIN probing : probing[c] = "evict"}

\* C29: the price tasks of one check resolve the same cache key; between the
\* test of the key and the write of the answer at most one of them is looking
\* the price up after a miss, and at most one is evicting the expired entry.
C29_OneMissPerKey == Cardinality(Missing) <= 1 /\ Cardinality(Evicting) <= 1

\* ----------------------------------------------------------------------- C30
\* a stop() has cleared running in the lifetime of loop thread t: the flag is
\* cleared now, or start() has created a later thread since, which it does
\* only when it finds the flag cleared
StoppedSince(t) == ~running \/ t # thread

\* C30: once stop() has cleared running, a loop thread starts no further
\* check and no new cycle, and the check it is in goes on to its end.
C30_NoCheckAfterStop ==
    [][\A t \in DOMAIN loops :
          StoppedSince(t) =>
              /\ loops'[t].at = "check" => loops[t].at = "check"
              /\ (loops[t].at = "while" /\ loops'[t] # loops[t]) => loops'[t].at = "done"
              /\ (loops[t].at = "check" /\ loops'[t] # loops[t]) =>
                    /\ loops'[t].at = "pause"
                    /\ loops'[t].i = loops[t].i]_vars

\* ----------------------------------------------------------------------- C31
\* keys of configuration c the check in progress sees for the first time with
\* a status other than "unavailable"
FirstSeenUp(c) ==
    {k \in DOMAIN Observed : /\ Len(k) = 2
                             /\ k[2] = c
                             /\ InScope(Sub, k[1])
                             /\ Observed[k] # Unavailable
                             /\ StatusAtStart(k) = None}

\* no key of configuration c was recorded non-unavailable when the check started
NoneUpAtStart(c) ==
    \A k \in DOMAIN check_start.lastStatus :
        (Len(k) = 2 /\ k[2] = c) => check_start.lastStatus[k] = Unavailable

\* C31: on a subscription with auto-order and notify-on-available, when a
\* check sees two or more datacenters of a configuration for the first time
\* with a non-unavailable status and no key of that configuration was
\* recorded non-unavailable at its start, then at the end of the check all of
\* them are in one grouped "available" notification and each has its
\* order_count order requests.
C31_SiblingsOfOneCheckAllOrdered ==
    (pc = "merge" /\ subscriptions # <<>> /\ Sub.autoOrder /\ Sub.notifyAvailable) =>
        \A c \in Configs :
            (Cardinality(FirstSeenUp(c)) >= 2 /\ NoneUpAtStart(c)) =>
                /\ \E i \in 1..Len(sent) :
                      /\ sent[i].change_type = "available"
                      /\ sent[i].config = c
                      /\ {<<sent[i].dcs[j][1], c>> : j \in 1..Len(sent[i].dcs)} = FirstSeenUp(c)
                /\ \A k \in FirstSeenUp(c) :
                      Cardinality({i \in 1..Len(orders) : OrderKey(orders[i]) = k})
                          = order_count(Sub)

\* ----------------------------------------------------------------------- C32
\* the steps of the pool workers (a price task, an order request) leave every
\* subscription, and so its lastStatus and history, as they found it
WorkersLeaveSubscription ==
    [][(pc \in {"price", "collect"}) => subscriptions' = subscriptions]_vars

\* C32: lastStatus and history of a subscription have one writer at a time:
\* no two threads are inside check_availability_change for the same
\* subscription, so nothing is written between the reads and the writes of
\* one check.
C32_OneWriterPerSubscription ==
    \A t1 \in DOMAIN loops, t2 \in DOMAIN loops :
        (/\ loops[t1].at = "check"
         /\ loops[t2].at = "check"
         /\ loops[t1].i = loops[t2].i) => t1 = t2

\* ----------------------------------------------------------------------- C33
\* C33: in a check that queued price tasks for two or more configurations,
\* the task of configuration c looks the price up with the option codes of c
\* and the first available datacenter of c, and the price it leaves in the
\* result of c is the quote for the options of c.
C33_TaskUsesOwnConfiguration ==
    [][(pc = "price" /\ Cardinality(DOMAIN config_results) >= 2) =>
          \A c \in price_query_tasks \ price_query_tasks' :
              /\ \A i \in (Len(lookups) + 1)..Len(lookups') :
                    /\ lookups'[i].options = ConfigInfo(c).options
                    /\ lookups'[i].dc = FirstAvailableDc(config_results[c].notifications_to_send)
              /\ config_results'[c].price_text \in {0, Quote(ConfigInfo(c).options)}]_vars

\* ----------------------------------------------------------------------- C34
\* C34: every history entry and every notification of the check in progress
\* has the change type "unavailable" when its status is "unavailable" and the
\* change type "available" when it is not.
C34_ChangeTypeAgrees ==
    /\ subscriptions # <<>> =>
          \A i \in 1..Len(history) :
              history[i].changeType =
                  (IF history[i].status = Unavailable THEN "unavailable" ELSE "available")
    /\ \A i \in 1..Len(sent) : \A j \in 1..Len(sent[i].dcs) :
          sent[i].change_type =
              (IF sent[i].dcs[j][2] = Unavailable THEN "unavailable" ELSE "available")

\* ----------------------------------------------------------------------- C35
\* the duplicate-trigger guard has suppressed key k in the check in progress:
\* auto-order is on, k is in scope, first seen and not "unavailable", and
\* another key of its configuration was recorded non-unavailable at the start
GuardSuppressed(k) ==
    /\ Checking
    /\ Sub.autoOrder
    /\ Len(k) = 2
    /\ InScope(Sub, k[1])
    /\ Observed[k] # Unavailable
    /\ StatusAtStart(k) = None
    /\ \E k1 \in DOMAIN check_start.lastStatus :
          /\ Len(k1) = 2
          /\ k1 # k
          /\ k1[2] = k[2]
          /\ check_start.lastStatus[k1] # Unavailable

\* a batch has been submitted for configuration c: the order flow runs for an
\* availability group only, and the grouped notification that follows it
\* leaves a token of the configuration in message_uuid_cache, where tokens stay
OrderedBefore(c) ==
    \E t \in DOMAIN message_uuid_cache : message_uuid_cache[t].configInfo = c

\* C35: the guard suppresses a key only of a configuration for which a batch
\* has been submitted before.
C35_SuppressedOnlyAfterOrder ==
    \A k \in DOMAIN Observed : GuardSuppressed(k) => OrderedBefore(k[2])

\* ----------------------------------------------------------------------- C36
\* C36: while notifyAvailable is off a check submits no order request,
\* auto-order or not; the merge records the status of every key of the
\* snapshot; and a request is only ever submitted, with notifyAvailable on,
\* for a key that lastStatus lacks or records as "unavailable": a key recorded
\* non-unavailable while the flag was off is not ordered once it is on.
C36_OrdersNeedNotifyFlag ==
    [][/\ (subscriptions # <<>> /\ subscriptions' # <<>> /\ ~Sub.notifyAvailable) =>
             (orders = <<>> /\ orders' = <<>>)
       /\ (pc = "merge" /\ pc' = "idle") =>
             \A k \in DOMAIN Observed : Get(lastStatus', k) = Observed[k]
       /\ \A i \in (Len(orders) + 1)..Len(orders') :
             /\ Sub.notifyAvailable
             /\ Get(lastStatus, OrderKey(orders'[i])) \in {None, Unavailable}]_vars

\* the flag was off when the first check saw a datacenter available and has
\* been set since: the second check sees the datacenter still available and
\* comes to its merge without an order and without a history entry
C36_Witness ==
    /\ pc = "merge"
    /\ nchecks = 2
    /\ Sub.autoOrder
    /\ Sub.notifyAvailable
    /\ last_call.op = "add_subscription"
    /\ orders = <<>>
    /\ history = <<>>
    /\ \E k \in DOMAIN Observed :
          /\ Len(k) = 2
          /\ Observed[k] # Unavailable
          /\ StatusAtStart(k) \notin {None, Unavailable}

\* ----------------------------------------------------------------------- C37
\* notification i of the check has an entry among those the check appended
\* to history h, for each of its datacenters
RecordedIn(h, n) ==
    \A j \in 1..Len(n.dcs) :
        \E e \in (Len(check_start'.history) + 1)..Len(h) :
            /\ h[e].datacenter = n.dcs[j][1]
            /\ h[e].status = n.dcs[j][2]
            /\ h[e].changeType = n.change_type
            /\ h[e].config = n.config

\* C37: a notification the transport failed to deliver (False, or an
\* exception) still has its history entries when the step that sent it is
\* over; the merge still writes the observed status of every key; and a
\* notification is only ever sent for a key whose observed status differs
\* from the recorded one, so a later check with the same status sends nothing.
C37_FailedSendStillRecorded ==
    [][/\ \A i \in 1..Len(sent') :
             (i > Len(sent) /\ delivered'[i] # "sent") => RecordedIn(history', sent'[i])
       /\ (pc \in {"merge", "failed"} /\ pc' = "idle") =>
             \A k \in DOMAIN Observed : Get(lastStatus', k) = Observed[k]
       /\ \A i \in 1..Len(sent') : \A j \in 1..Len(sent'[i].dcs) :
             Get(check_start'.lastStatus, IF sent'[i].config = None
                                          THEN <<sent'[i].dcs[j][1]>>
                                          ELSE <<sent'[i].dcs[j][1], sent'[i].config>>)
                 # sent'[i].dcs[j][2]]_vars

\* ----------------------------------------------------------------------- C38
\* C38: a loop thread starts a check only of a subscription that is in the
\* store at that moment: after remove_subscription or clear_subscriptions no
\* check starts for a subscription they removed.
C38_NoCheckOfRemoved ==
    [][\A t \in DOMAIN loops :
          (loops[t].at = "for" /\ loops'[t].at = "check") =>
              \E j \in 1..Len(subscriptions) :
                  subscriptions[j].planCode = Iterated(t)[loops[t].i]]_vars

\* ----------------------------------------------------------------------- C39
\* status key of a history entry
EntryKey(e) == IF e.config = None THEN <<e.datacenter>> ELSE <<e.datacenter, e.config>>

\* C39: while a subscription lives no step takes a key out of lastStatus,
\* whatever add_subscription changes of the filter and the flags; a check
\* that completes leaves every key of its snapshot in lastStatus; a history
\* entry without old status is only ever written for a key lastStatus lacked
\* when the check started; and a key recorded with the status the snapshot
\* reports, in the filter now or not, is neither notified nor ordered.
C39_FirstSeenOnce ==
    [][(subscriptions # <<>> /\ subscriptions' # <<>>) =>
          /\ DOMAIN lastStatus \subseteq DOMAIN lastStatus'
          /\ (pc = "merge" /\ pc' = "idle") => DOMAIN Observed \subseteq DOMAIN lastStatus'
          /\ \A e \in (Len(history) + 1)..Len(history') :
                history'[e].oldStatus = None =>
                    EntryKey(history'[e]) \notin DOMAIN check_start'.lastStatus
          /\ \A k \in DOMAIN check_start'.lastStatus \cap DOMAIN SnapshotStatus(current_availability') :
                check_start'.lastStatus[k] = SnapshotStatus(current_availability')[k] =>
                    /\ \A i \in 1..Len(sent') : \A j \in 1..Len(sent'[i].dcs) :
                          ~(sent'[i].config = KeyConfig(k) /\ sent'[i].dcs[j][1] = k[1])
                    /\ \A i \in 1..Len(orders') : OrderKey(orders'[i]) # k]_vars

\* the filter was widened after a check recorded rbx from outside it: the
\* next check finds rbx in the filter with the recorded status and comes to
\* its merge without notification and without history entry
C39_Witness ==
    /\ pc = "merge"
    /\ nchecks = 2
    /\ last_call.op = "add_subscription"
    /\ Sub.datacenters = {}
    /\ Sub.notifyAvailable
    /\ ~Sub.autoOrder
    /\ \E k \in DOMAIN Observed :
          /\ k[1] = "rbx"
          /\ Observed[k] = "available"
          /\ StatusAtStart(k) = "available"
    /\ sent = <<>>
    /\ history = <<>>

\* ----------------------------------------------------------------------- C40
\* alerts of the last call for plan code c
AlertsFor(alerts, c) == Cardinality({i \in 1..Len(alerts) : alerts[i].planCode = c})

\* the first call with plan codes initialises known_servers and sends no
\* alert, and every later call sends one alert for each plan code of its list
\* that known_servers lacks, and no other
C40_AnnouncesUnknown ==
    [][LET codes == CurrentCodes(last_call'.args) IN
       /\ (known_servers = {} /\ codes # {}) =>
             (known_servers' = codes /\ new_server_alerts' = <<>>)
       /\ known_servers # {} =>
             \A c \in ServerCodes :
                 AlertsFor(new_server_alerts', c) = IF c \in codes \ known_servers THEN 1 ELSE 0]_vars

\* C40: the first call with plan codes only initialises the known set; every
\* later call sends exactly one alert for each plan code of its list that is
\* not in the known set; and no call announces a plan code that initialised
\* the known set or has been announced before.
C40_NewServerAnnouncedOnce ==
    [][LET codes == CurrentCodes(last_call'.args) IN
       /\ (known_servers = {} /\ codes # {}) =>
             (known_servers' = codes /\ new_server_alerts' = <<>>)
       /\ known_servers # {} =>
             \A c \in ServerCodes :
                 AlertsFor(new_server_alerts', c) = IF c \in codes \ known_servers THEN 1 ELSE 0
       /\ \A i \in 1..Len(new_server_alerts') :
             new_server_alerts'[i].planCode \notin announced]_vars

====
